---- MODULE Spec2Model ----
(***************************************************************************)
(* YouKo (src/server.py): a video-sharing server whose whole state is one  *)
(* JSON document, db.json.  Every request handler, every admin-console     *)
(* action and every background task loads the whole document, changes its  *)
(* own in-memory copy and writes the whole document back.                  *)
(*                                                                         *)
(* Representation.                                                         *)
(*  - A document is a record of collections; a collection (a Python dict)  *)
(*    is a function from keys to records.                                  *)
(*  - The identifier str(n) that DB.nid returns is represented by the      *)
(*    number n (str is injective on the naturals and identifiers are only  *)
(*    compared for equality here); the system user's identifier "0" is 0.  *)
(*  - likes and subs are dicts keyed by str(uuid.uuid4())[:8]; no code     *)
(*    reads such a key except to reach the record it was found under, so   *)
(*    each is represented by the bag of its records (a record may occur    *)
(*    more than once, as two keys may hold equal records).  A session      *)
(*    token is a key not yet used in db["sess"] (Uuid8).                   *)
(*  - A user name is a sequence of characters, so that str.lower() is      *)
(*    computed character by character.                                     *)
(*  - Fields that no operation below reads (display_name, avatar, bio,     *)
(*    title, created, size_mb, ...) are left out of the records.           *)
(***************************************************************************)
EXTENDS Integers, Sequences, FiniteSets, TLC

VARIABLES
    file,    \* DBFILE: [st, doc], st one of "ok", "missing", "garbage", "partial"
    now,     \* time.time(), in seconds
    drop,    \* the files lying in the AUTO_VIDS folder
    resp,    \* the step taken last: the request or event, and its answer
    pc,      \* per thread: where it stands
    db,      \* per thread: its in-memory copy of the document
    req,     \* per thread: the request or console action it is carrying out
    issued,  \* per category: the identifiers DB.nid has handed out, in order
    lk,      \* DB._lk: the thread holding the lock, or NoThread
    vids,    \* the files lying in the VIDS folder (followed in SpecFix)
    seen     \* per (fingerprint, video): when a view was last counted

vars == <<file, now, drop, resp, pc, db, req, issued, lk, vids, seen>>

----------------------------------------------------------------------------
(* Bounds of the model *)

\* users registered and videos created (DB.nid calls per category) that
\* are explored where each request runs in one piece
MaxUsers == 2

MaxVideos == 1

\* notifications explored per recipient
MaxNotifs == 2

\* sessions explored where clients log in
MaxSessions == 3

\* comments explored where comments are written one request at a time
MaxComments == 2

\* DB.nid calls per category explored where threads interleave
MaxIssued == 2

MaxPlaylists == 2

----------------------------------------------------------------------------
(* Generic helpers for dicts and lists *)

Empty == [x \in {} |-> x]

Put(f, k, v) == [x \in DOMAIN f \cup {k} |-> IF x = k THEN v ELSE f[x]]

Del(f, K) == [x \in DOMAIN f \ K |-> f[x]]

Range(s) == {s[i] : i \in DOMAIN s}

\* Bags of records: dicts whose keys are never read
BagAdd(b, r) == IF r \in DOMAIN b THEN [b EXCEPT ![r] = @ + 1] ELSE Put(b, r, 1)

BagRemove(b, r) == IF b[r] = 1 THEN Del(b, {r}) ELSE [b EXCEPT ![r] = @ - 1]

\* the records of bag b that lie in the set S
BagKeep(b, S) == [r \in DOMAIN b \cap S |-> b[r]]

\* the entries of dict f whose key lies in the set K
Keep(f, K) == [k \in DOMAIN f \cap K |-> f[k]]

\* the number of records of bag b that lie in the set S
RECURSIVE BagCount(_, _)
BagCount(b, S) ==
    IF S \cap DOMAIN b = {} THEN 0
    ELSE LET r == CHOOSE x \in S \cap DOMAIN b : TRUE
         IN  b[r] + BagCount(b, S \ {r})

NoUser == 0 - 1

NoSid == 0

\* str(uuid.uuid4())[:8]: a key the collection does not hold yet
Uuid8(f) ==
    CHOOSE k \in 1..(Cardinality(DOMAIN f) + 1) :
        k \notin DOMAIN f /\ \A j \in 1..(k - 1) : j \in DOMAIN f

\* str.lower(), character by character
lowerOf == [A |-> "a", B |-> "b", O |-> "o", S |-> "s", Y |-> "y"]

LowerCh(c) == IF c \in DOMAIN lowerOf THEN lowerOf[c] ELSE c

Lower(s) == [i \in DOMAIN s |-> LowerCh(s[i])]

\* str.strip(), for texts whose only whitespace is the blank
RECURSIVE Strip(_)
Strip(s) ==
    IF s = <<>> THEN s
    ELSE IF Head(s) = " " THEN Strip(Tail(s))
    ELSE IF s[Len(s)] = " " THEN Strip(SubSeq(s, 1, Len(s) - 1))
    ELSE s

\* dict.get(key, default) on a record
Get(r, key, default) == IF key \in DOMAIN r THEN r[key] ELSE default

\* "a in b" on two strings
Contains(b, a) == \E i \in 0..(Len(b) - Len(a)) : SubSeq(b, i + 1, i + Len(a)) = a

\* hashlib.sha256(p.encode()).hexdigest(): injective for all practical purposes
hp(p) == <<"sha256", p>>

----------------------------------------------------------------------------
(* class DB *)

\* DB._e(): the default document
E ==
    [ cnt      |-> [u |-> 0, v |-> 0, c |-> 0],
      users    |-> Empty,
      uorder   |-> <<>>,       \* insertion order of the keys of users
      videos   |-> Empty,
      comments |-> Empty,
      likes    |-> Empty,
      subs     |-> Empty,
      sess     |-> Empty,
      notifs   |-> Empty,
      hist     |-> Empty,
      vlog     |-> Empty,
      algorithm |-> Empty,
      playlists |-> Empty,
      health   |-> [last_check |-> 0, fixes |-> {}],
      settings |-> [reg |-> TRUE, max_mb |-> 500, maint |-> FALSE] ]

\* States of DBFILE: a complete document (json.dump ran to its end), no
\* file, a file that does not parse, a file opened for writing ("w"
\* truncates it) whose json.dump has not finished
Stored(d) == [st |-> "ok", doc |-> d]

Missing == [st |-> "missing", doc |-> E]

Garbage == [st |-> "garbage", doc |-> E]

Partial == [st |-> "partial", doc |-> E]

\* DB.load(): the document returned.  A missing or unparseable file yields
\* the default document (every document the server writes holds every
\* top-level key, so the backfill loop adds nothing).
Load(f) == IF f.st = "ok" THEN f.doc ELSE E

\* DB.load(): the file afterwards (the default document is written back on
\* the missing-file and parse-error paths)
LoadFile(f) == Stored(Load(f))

\* DB.load() on a file with any content.  Json(v) is a file that json.load
\* accepts, v its value: an object ([kind |-> "object", val |-> dict]), an
\* array of strings ([kind |-> "array", items |-> the strings]), a string
\* ([kind |-> "string", has |-> the key names that occur in it]) or a
\* number, true, false or null ([kind |-> "scalar"]).
Json(v) == [st |-> "json", val |-> v]

\* the loop "for k, v in cls._e().items(): if k not in d: d[k] = v": on an
\* object it adds the missing keys; on an array or a string, "k not in d"
\* is a membership or substring test and "d[k] = v" raises TypeError; on a
\* scalar "k not in d" raises
Backfilled(v) ==
    CASE v.kind = "object" ->
           [ raised |-> FALSE,
             ret |-> [ kind |-> "object",
                       val |-> [k \in DOMAIN E \cup DOMAIN v.val |->
                                   IF k \in DOMAIN v.val THEN v.val[k] ELSE E[k]] ] ]
      [] v.kind = "array"  -> [raised |-> ~(DOMAIN E \subseteq v.items), ret |-> v]
      [] v.kind = "string" -> [raised |-> ~(DOMAIN E \subseteq v.has), ret |-> v]
      [] v.kind = "scalar" -> [raised |-> TRUE, ret |-> v]

\* DB.load(): what it returns (ret) and the file afterwards; the bare
\* except takes whatever json.load or the loop raises and writes the
\* default document
DbLoad(f) ==
    IF f.st = "json"
    THEN IF Backfilled(f.val).raised
         THEN [ret |-> [kind |-> "object", val |-> E], file |-> Stored(E)]
         ELSE [ret |-> Backfilled(f.val).ret, file |-> f]
    ELSE [ret |-> [kind |-> "object", val |-> Load(f)], file |-> LoadFile(f)]

\* (mutant: save keeps the stored comments that the document lacks)
WMerged(d) == Stored([d EXCEPT !.comments = @ @@ Load(file).comments])

\* DB._w(db) under DB.save(db): the whole document replaces the file
W(d) == Stored(d)

\* DB.nid(db, k): the document with the counter advanced, and the identifier
NidDoc(d, k) == [d EXCEPT !.cnt[k] = @ + 1]

NidVal(d, k) == d.cnt[k] + 1

----------------------------------------------------------------------------
(* H.uid(): the session cookie *)

TTL == 604800

UidExpired(d, sid, t) ==
    /\ sid # NoSid
    /\ sid \in DOMAIN d.sess
    /\ t - d.sess[sid].cr > TTL

\* a uid() that does not look at the age of the session
UidUserAnyAge(d, sid, t) ==
    IF sid = NoSid \/ sid \notin DOMAIN d.sess THEN NoUser
    ELSE d.sess[sid].uid

\* the user the cookie stands for, or NoUser
UidUser(d, sid, t) ==
    IF sid = NoSid \/ sid \notin DOMAIN d.sess THEN NoUser
    ELSE IF t - d.sess[sid].cr > TTL THEN NoUser
    ELSE d.sess[sid].uid

\* the document uid() leaves in the file: an expired session is deleted
UidDoc(d, sid, t) ==
    IF UidExpired(d, sid, t) THEN [d EXCEPT !.sess = Del(@, {sid})] ELSE d

\* a handler's answer: whether it called DB.save, its in-memory document,
\* and the response
Answer(saved, d, r) == [saved |-> saved, db |-> d, resp |-> r]

Err(d, code) == Answer(FALSE, d, [code |-> code])

----------------------------------------------------------------------------
(* H.preg: POST /api/register *)

\* (mutant: the comparison without lower())
NameTakenExact(d, un) ==
    \E u \in DOMAIN d.users : d.users[u].username = un

NameTaken(d, un) ==
    \E u \in DOMAIN d.users : Lower(d.users[u].username) = Lower(un)

\* a registration that makes every user an admin
NewUserAdmin(un, pw, first) ==
    [ username |-> un, password |-> hp(pw), is_admin |-> TRUE,
      is_banned |-> FALSE, is_verified |-> FALSE ]

NewUser(un, pw, first) ==
    [ username |-> un, password |-> hp(pw), is_admin |-> first,
      is_banned |-> FALSE, is_verified |-> FALSE ]

\* b: the request body ([ok |-> FALSE] when it is not JSON)
Preg(d, b, t) ==
    IF ~d.settings.reg THEN Err(d, 403)
    ELSE IF ~b.ok THEN Err(d, 400)
    ELSE IF Len(b.username) = 0 \/ Len(b.password) = 0 THEN Err(d, 400)
    ELSE IF Len(b.username) < 3 THEN Err(d, 400)
    ELSE IF Len(b.password) < 4 THEN Err(d, 400)
    ELSE IF NameTaken(d, b.username) THEN Err(d, 400)
    ELSE
        LET uid   == NidVal(d, "u")
            d1    == NidDoc(d, "u")
            first == DOMAIN d1.users = {}
            sid   == Uuid8(d1.sess)
            d2    == [d1 EXCEPT
                        !.users  = Put(@, uid, NewUser(b.username, b.password, first)),
                        !.uorder = Append(@, uid),
                        !.sess   = Put(@, sid, [uid |-> uid, cr |-> t])]
        IN  Answer(TRUE, d2, [code |-> 200, user_id |-> uid, sid |-> sid])

----------------------------------------------------------------------------
(* H.plog: POST /api/login *)

\* the users, in the order of the dict, that the credentials fit
LoginMatches(d, un, pw) ==
    SelectSeq(d.uorder, LAMBDA x : /\ Lower(d.users[x].username) = Lower(un)
                                   /\ d.users[x].password = hp(pw))

\* a login that does not look at is_banned
PlogAnyone(d, b, t) ==
    IF ~b.ok THEN Err(d, 400)
    ELSE
        LET ms == LoginMatches(d, Strip(b.username), Strip(b.password))
        IN  IF ms = <<>> THEN Err(d, 401)
            ELSE LET sid == Uuid8(d.sess)
                 IN  Answer(TRUE, [d EXCEPT !.sess = Put(@, sid, [uid |-> Head(ms), cr |-> t])],
                            [code |-> 200, sid |-> sid])

\* b: the request body, [ok, username, password]
Plog(d, b, t) ==
    IF ~b.ok THEN Err(d, 400)
    ELSE
        LET ms == LoginMatches(d, Strip(b.username), Strip(b.password))
        IN  IF ms = <<>> THEN Err(d, 401)
            ELSE IF d.users[Head(ms)].is_banned THEN Err(d, 403)
            ELSE LET sid == Uuid8(d.sess)
                 IN  Answer(TRUE, [d EXCEPT !.sess = Put(@, sid, [uid |-> Head(ms), cr |-> t])],
                            [code |-> 200, sid |-> sid])

\* H.plout: POST /api/logout; the session of the cookie is dropped
Plout(d, sid) ==
    IF sid = NoSid THEN Answer(FALSE, d, [code |-> 200])
    ELSE Answer(TRUE, [d EXCEPT !.sess = Del(@, {sid})], [code |-> 200])

----------------------------------------------------------------------------
(* Notifications: db["notifs"][uid] is a list *)

AddNotif(nf, uid, n) ==
    Put(nf, uid, Append(IF uid \in DOMAIN nf THEN nf[uid] ELSE <<>>, n))

\* the number of notifications in the lists ns
RECURSIVE NotifCount(_)
NotifCount(ns) ==
    IF DOMAIN ns = {} THEN 0
    ELSE LET x == CHOOSE y \in DOMAIN ns : TRUE
         IN  Len(ns[x]) + NotifCount(Del(ns, {x}))

\* c notifications n for user uid
RECURSIVE AddNotifs(_, _, _, _)
AddNotifs(nf, uid, n, c) ==
    IF c = 0 THEN nf ELSE AddNotifs(AddNotif(nf, uid, n), uid, n, c - 1)

\* one notification n for the subscriber of each of the subscription
\* records S of the bag subs
RECURSIVE NotifySubs(_, _, _, _)
NotifySubs(nf, subs, S, n) ==
    IF S = {} THEN nf
    ELSE LET s == CHOOSE x \in S : TRUE
         IN  NotifySubs(AddNotifs(nf, s.sub, n, subs[s]), subs, S \ {s}, n)

----------------------------------------------------------------------------
(* H.pup: POST /api/upload *)

\* auto_source of a video that was uploaded (the key is absent)
\* a flag that is set for every duration under 60
IsShortUnder(dur) == dur < 60

\* is_short = dur > 0 and dur < 60, in pup and in scan_auto_videos; a
\* duration of 0 stands for "not known"
IsShort(dur) == dur > 0 /\ dur < 60

NoSource == [name |-> "", ext |-> ""]

QualityOrder == <<"144p", "240p", "360p", "480p", "720p">>

AvailableQualities(quality) ==
    IF \E i \in DOMAIN QualityOrder : QualityOrder[i] = quality
    THEN SubSeq(QualityOrder, 1, CHOOSE i \in DOMAIN QualityOrder : QualityOrder[i] = quality)
    ELSE <<"original">>

\* the title of an upload whose form has none (a Persian "untitled")
Untitled == <<"u", "n", "t", "i", "t", "l", "e", "d">>

\* [t.strip() for t in tags.split(",") if t.strip()], on the pieces that
\* split(",") gives
TagList(pieces) ==
    SelectSeq([i \in DOMAIN pieces |-> Strip(pieces[i])], LAMBDA t : t # <<>>)

\* u: what uid() returned; f: the multipart form (title, description and
\* the pieces of tags between the commas are optional fields)
Pup(d, u, f, t) ==
    IF u = NoUser THEN Err(d, 401)
    ELSE IF u \in DOMAIN d.users /\ d.users[u].is_banned THEN Err(d, 403)
    ELSE IF ~f.video THEN Err(d, 400)
    ELSE IF f.size_mb > d.settings.max_mb THEN Err(d, 400)
    ELSE
        LET vid == NidVal(d, "v")
            d1  == NidDoc(d, "v")
            v   == [ uid |-> u, auto_source |-> NoSource, duration |-> f.duration,
                     title |-> Strip(Get(f, "title", Untitled)),
                     desc |-> Strip(Get(f, "description", <<>>)),
                     tags |-> TagList(Get(f, "tags", <<>>)),
                     is_short |-> IsShort(f.duration),
                     hidden |-> FALSE, views |-> 0,
                     qualities |-> AvailableQualities(f.quality) ]
            n   == [type |-> "new_video", vid |-> vid, from |-> u, cr |-> t, read |-> FALSE]
            to  == {s \in DOMAIN d1.subs : s.ch = u}
            d2  == [d1 EXCEPT !.videos = Put(@, vid, v),
                              !.notifs = NotifySubs(@, d1.subs, to, n)]
        IN  Answer(TRUE, d2, [code |-> 200, video_id |-> vid])

----------------------------------------------------------------------------
(* H.plk: POST /api/like, and the counts H._enrich computes *)

LikeCount(d, vid, val) ==
    BagCount(d.likes, {l \in DOMAIN d.likes : l.vid = vid /\ l.val = val})

\* the derived fields of video vid
Enrich(d, vid) ==
    [ like_count    |-> LikeCount(d, vid, 1),
      dislike_count |-> LikeCount(d, vid, 0 - 1),
      comment_count |-> Cardinality({c \in DOMAIN d.comments : d.comments[c].vid = vid}) ]

\* (mutant: the loop that looks for the user's record finds nothing)
LikesOfNone(d, u, vid) == {}

\* the like records of user u on video vid
LikesOf(d, u, vid) ==
    {l \in DOMAIN d.likes : l.uid = u /\ l.vid = vid}

\* (mutant: an existing record always takes the value sent)
PlkFlipOnly(d, u, b) ==
    IF u = NoUser THEN Err(d, 401)
    ELSE IF ~b.ok THEN Err(d, 400)
    ELSE IF b.video_id \notin DOMAIN d.videos THEN Err(d, 404)
    ELSE
        LET vid   == b.video_id
            mine  == LikesOf(d, u, vid)
            lk_   == CHOOSE l \in mine : TRUE
            new   == [uid |-> u, vid |-> vid, val |-> b.value]
            d1    == IF mine # {}
                     THEN [d EXCEPT !.likes = BagAdd(BagRemove(@, lk_), new)]
                     ELSE IF b.value \in {1, 0 - 1}
                          THEN [d EXCEPT !.likes = BagAdd(@, new)]
                          ELSE d
        IN  Answer(TRUE, d1,
                [ code |-> 200, like_count |-> LikeCount(d1, vid, 1),
                  dislike_count |-> LikeCount(d1, vid, 0 - 1), user_liked |-> b.value ])

\* u: what uid() returned; b: the body, [ok, video_id, value].  lk_ is the
\* record the loop stops at (the first of (u, vid) in dict order).
Plk(d, u, b) ==
    IF u = NoUser THEN Err(d, 401)
    ELSE IF ~b.ok THEN Err(d, 400)
    ELSE IF b.video_id \notin DOMAIN d.videos THEN Err(d, 404)
    ELSE
        LET vid   == b.video_id
            mine  == LikesOf(d, u, vid)
            lk_   == CHOOSE l \in mine : TRUE
            same  == mine # {} /\ lk_.val = b.value
            new   == [uid |-> u, vid |-> vid, val |-> b.value]
            d1    == IF mine # {}
                     THEN IF same THEN [d EXCEPT !.likes = BagRemove(@, lk_)]
                          ELSE [d EXCEPT !.likes = BagAdd(BagRemove(@, lk_), new)]
                     ELSE IF b.value \in {1, 0 - 1}
                          THEN [d EXCEPT !.likes = BagAdd(@, new)]
                          ELSE d
        IN  Answer(TRUE, d1,
                [ code |-> 200, like_count |-> LikeCount(d1, vid, 1),
                  dislike_count |-> LikeCount(d1, vid, 0 - 1),
                  user_liked |-> IF same THEN 0 ELSE b.value ])

----------------------------------------------------------------------------
(* H.psub: POST /api/subscribe *)

\* (mutant: the loop that looks for the pair finds nothing)
SubsOfNone(d, u, ch) == {}

\* the subscription records of subscriber u to channel ch
SubsOf(d, u, ch) ==
    {s \in DOMAIN d.subs : s.sub = u /\ s.ch = ch}

SubCount(d, ch) == BagCount(d.subs, {s \in DOMAIN d.subs : s.ch = ch})

\* (mutant: the handler without the test ch == u)
PsubSelf(d, u, b, t) ==
    IF u = NoUser THEN Err(d, 401)
    ELSE IF ~b.ok THEN Err(d, 400)
    ELSE IF b.channel_id \notin DOMAIN d.users THEN Err(d, 404)
    ELSE
        LET ch   == b.channel_id
            mine == SubsOf(d, u, ch)
            ek   == CHOOSE s \in mine : TRUE
            n    == [type |-> "subscribe", vid |-> 0, from |-> u, cr |-> t, read |-> FALSE]
            d1   == IF mine # {}
                    THEN [d EXCEPT !.subs = BagRemove(@, ek)]
                    ELSE [d EXCEPT !.subs   = BagAdd(@, [sub |-> u, ch |-> ch, cr |-> t]),
                                   !.notifs = AddNotif(@, ch, n)]
        IN  Answer(TRUE, d1,
                [code |-> 200, subscribed |-> (mine = {}), count |-> SubCount(d1, ch)])

\* u: what uid() returned; b: the body, [ok, channel_id]
Psub(d, u, b, t) ==
    IF u = NoUser THEN Err(d, 401)
    ELSE IF ~b.ok THEN Err(d, 400)
    ELSE IF b.channel_id \notin DOMAIN d.users THEN Err(d, 404)
    ELSE IF b.channel_id = u THEN Err(d, 400)
    ELSE
        LET ch   == b.channel_id
            mine == SubsOf(d, u, ch)
            ek   == CHOOSE s \in mine : TRUE
            n    == [type |-> "subscribe", vid |-> 0, from |-> u, cr |-> t, read |-> FALSE]
            d1   == IF mine # {}
                    THEN [d EXCEPT !.subs = BagRemove(@, ek)]
                    ELSE [d EXCEPT !.subs   = BagAdd(@, [sub |-> u, ch |-> ch, cr |-> t]),
                                   !.notifs = AddNotif(@, ch, n)]
        IN  Answer(TRUE, d1,
                [code |-> 200, subscribed |-> (mine = {}), count |-> SubCount(d1, ch)])

----------------------------------------------------------------------------
(* H.pcm: POST /api/comment *)

\* a comment's parent_id and pinned are read with .get: a comment without
\* the keys (one made by pcm) has parent NoComment and pinned FALSE
NoComment == 0

\* u: what uid() returned; b: the body, [ok, video_id, text]
Pcm(d, u, b, t) ==
    IF u = NoUser THEN Err(d, 401)
    ELSE IF ~b.ok THEN Err(d, 400)
    ELSE IF Strip(b.text) = <<>> THEN Err(d, 400)
    ELSE IF b.video_id \notin DOMAIN d.videos THEN Err(d, 404)
    ELSE
        LET cid == NidVal(d, "c")
            d1  == NidDoc(d, "c")
            c   == [ vid |-> b.video_id, uid |-> u, text |-> Strip(b.text), cr |-> t,
                     parent |-> NoComment, pinned |-> FALSE ]
            vo  == d1.videos[b.video_id].uid
            n   == [type |-> "comment", vid |-> b.video_id, from |-> u, cr |-> t, read |-> FALSE]
            d2  == [d1 EXCEPT !.comments = Put(@, cid, c),
                              !.notifs = IF vo # u THEN AddNotif(@, vo, n) ELSE @]
        IN  Answer(TRUE, d2, [code |-> 200, comment_id |-> cid])

----------------------------------------------------------------------------
(* H.pcreply: POST /api/comment_reply; H.pdc: POST /api/delete_comment;    *)
(* H.ppincm: POST /api/pin_comment                                         *)

\* u: what uid() returned; b: the body, [ok, video_id, parent_id, text]
Pcreply(d, u, b, t) ==
    IF u = NoUser THEN Err(d, 401)
    ELSE IF ~b.ok THEN Err(d, 400)
    ELSE IF Strip(b.text) = <<>> THEN Err(d, 400)
    ELSE IF b.video_id \notin DOMAIN d.videos THEN Err(d, 404)
    ELSE IF b.parent_id # NoComment /\ b.parent_id \notin DOMAIN d.comments THEN Err(d, 404)
    ELSE
        LET cid == NidVal(d, "c")
            d1  == NidDoc(d, "c")
            c   == [ vid |-> b.video_id, uid |-> u, text |-> Strip(b.text), cr |-> t,
                     parent |-> b.parent_id, pinned |-> FALSE ]
            po  == IF b.parent_id # NoComment THEN d1.comments[b.parent_id].uid ELSE NoUser
            n   == [type |-> "reply", vid |-> b.video_id, from |-> u, cr |-> t, read |-> FALSE]
            d2  == [d1 EXCEPT !.comments = Put(@, cid, c),
                              !.notifs = IF po # NoUser /\ po # u THEN AddNotif(@, po, n) ELSE @]
        IN  Answer(TRUE, d2, [code |-> 200, comment_id |-> cid])

\* the owner of video vid in document d, NoUser when the video is not there
VideoOwner(d, vid) == IF vid \in DOMAIN d.videos THEN d.videos[vid].uid ELSE NoUser

\* a test that forgets the owner of the video
MayDeleteNoOwner(d, u, c) ==
    \/ c.uid = u
    \/ (u \in DOMAIN d.users /\ d.users[u].is_admin)

\* whether user u may delete comment c: the author, the owner of the
\* comment's video, an admin
MayDelete(d, u, c) ==
    \/ c.uid = u
    \/ VideoOwner(d, c.vid) = u
    \/ (u \in DOMAIN d.users /\ d.users[u].is_admin)

\* u: what uid() returned; b: the body, [ok, comment_id]
Pdc(d, u, b) ==
    IF u = NoUser THEN Err(d, 401)
    ELSE IF ~b.ok THEN Err(d, 400)
    ELSE IF b.comment_id \notin DOMAIN d.comments THEN Err(d, 404)
    ELSE
        LET c == d.comments[b.comment_id]
        IN  IF ~MayDelete(d, u, c)
            THEN Err(d, 403)
            ELSE Answer(TRUE, [d EXCEPT !.comments = Del(@, {b.comment_id})], [code |-> 200])

\* a loop that leaves every comment as it is
UnpinnedNone(cs, vid) == cs

\* the loop of ppincm: every comment of video vid gets pinned False
Unpinned(cs, vid) ==
    [k \in DOMAIN cs |-> IF cs[k].vid = vid THEN [cs[k] EXCEPT !.pinned = FALSE] ELSE cs[k]]

\* u: what uid() returned; b: the body, [ok, comment_id]
Ppincm(d, u, b) ==
    IF u = NoUser THEN Err(d, 401)
    ELSE IF ~b.ok THEN Err(d, 400)
    ELSE IF b.comment_id \notin DOMAIN d.comments THEN Err(d, 404)
    ELSE
        LET cid == b.comment_id
            vid == d.comments[cid].vid
            cs  == Unpinned(d.comments, vid)
            cs2 == [cs EXCEPT ![cid].pinned = ~cs[cid].pinned]
        IN  IF VideoOwner(d, vid) # u THEN Err(d, 403)
            ELSE Answer(TRUE, [d EXCEPT !.comments = cs2],
                        [code |-> 200, pinned |-> cs2[cid].pinned])

----------------------------------------------------------------------------
(* H.pdv: POST /api/delete_video *)

\* u: what uid() returned; b: the body, [ok, video_id]
Pdv(d, u, b) ==
    IF u = NoUser THEN Err(d, 401)
    ELSE IF ~b.ok THEN Err(d, 400)
    ELSE IF b.video_id \notin DOMAIN d.videos THEN Err(d, 404)
    ELSE IF /\ d.videos[b.video_id].uid # u
            /\ ~(u \in DOMAIN d.users /\ d.users[u].is_admin) THEN Err(d, 403)
    ELSE
        LET vid == b.video_id
        IN  Answer(TRUE,
                [d EXCEPT
                   !.videos   = Del(@, {vid}),
                   !.comments = Keep(@, {k \in DOMAIN @ : @[k].vid # vid}),
                   !.likes    = BagKeep(@, {l \in DOMAIN @ : l.vid # vid})],
                [code |-> 200])

----------------------------------------------------------------------------
(* H.ptr: POST /api/transcode, and the thread do_transcode it starts *)

\* how subprocess.run(cmd, timeout=300) can end: ffmpeg exits with status 0,
\* exits with another status, or is killed at the timeout (TimeoutExpired is
\* raised); output: whether output_path exists afterwards.  ffmpeg creates
\* the output file when it opens it, before it encodes.
Ffmpeg ==
    { [end |-> "exit0",   output |-> TRUE],
      [end |-> "failed",  output |-> FALSE],
      [end |-> "failed",  output |-> TRUE],
      [end |-> "timeout", output |-> TRUE] }

\* a transcode_video() that looks at the exit status as well
TranscodeVideoChecked(quality, ffmpeg) ==
    /\ quality \in Range(QualityOrder)
    /\ ffmpeg.end = "exit0"
    /\ ffmpeg.output

\* transcode_video(): whether it returns a path.  The exit status of ffmpeg
\* is not looked at: only an exception leaves the try block early.
TranscodeVideo(quality, ffmpeg) ==
    /\ quality \in Range(QualityOrder)
    /\ ffmpeg.end # "timeout"
    /\ ffmpeg.output

\* u: what uid() returned; b: the body, [ok, video_id, quality]; source:
\* whether the video's file lies in VIDS.  started: the thread is started.
Ptr(d, u, b, source) ==
    LET no(code) == Answer(FALSE, d, [code |-> code, started |-> FALSE])
    IN  IF u = NoUser THEN no(401)
        ELSE IF ~(u \in DOMAIN d.users /\ d.users[u].is_admin) THEN no(403)
        ELSE IF ~b.ok THEN no(400)
        ELSE IF b.video_id \notin DOMAIN d.videos THEN no(404)
        ELSE IF ~source THEN no(404)
        ELSE Answer(FALSE, d, [code |-> 200, started |-> TRUE])

\* do_transcode() once transcode_video() has returned a path
DoTranscode(d, vid, quality) ==
    IF vid \in DOMAIN d.videos
    THEN Answer(TRUE,
             [d EXCEPT !.videos[vid].qualities =
                  IF quality \in Range(@) THEN @ ELSE Append(@, quality)],
             [code |-> 0])
    ELSE Answer(FALSE, d, [code |-> 0])

----------------------------------------------------------------------------
(* H.pvw: POST /api/view *)

\* seconds within which a fingerprint's views of a video count once
ViewWindow == 300

\* a counted view drops the view-log entries that are this old
VlogKept == 3600

HistCap == 100

\* list[:n]
Take(s, n) == SubSeq(s, 1, IF Len(s) < n THEN Len(s) ELSE n)

\* the key fp + "_" + vid of the view log (fp is 16 hex digits, so the two
\* parts can be told apart)
ViewKey(fp, vid) == <<fp, vid>>

\* db["vlog"].get(vk, 0)
LastView(d, vk) == IF vk \in DOMAIN d.vlog THEN d.vlog[vk] ELSE 0

\* (mutant: a counted view drops every other entry of the view log)
VlogAfterOnly(vlog, vk, t) == Put(Empty, vk, t)

\* the view log after a counted view
VlogAfter(vlog, vk, t) ==
    LET v1 == Put(vlog, vk, t)
    IN  [k \in {x \in DOMAIN v1 : v1[x] > t - VlogKept} |-> v1[k]]

\* a filter that drops nothing
HistWithoutNone(h, vid) == h

\* the history h without its entries for video vid
HistWithout(h, vid) == SelectSeq(h, LAMBDA x : x.v # vid)

\* an insert at the end of the list
HistAfterBack(h, vid, t) ==
    Take(HistWithout(h, vid) \o <<[v |-> vid, t |-> t]>>, HistCap)

\* the history of user u after a view of vid by someone else than its owner
HistAfter(h, vid, t) ==
    Take(<<[v |-> vid, t |-> t]>> \o HistWithout(h, vid), HistCap)

\* fp: cfp() of the client; b: the body, [ok, video_id]; sid: the cookie.
\* uid() is called after the document was loaded, and what it saves (an
\* expired session deleted) is overwritten by the handler's own save, as is
\* what track_user_behavior saves.  has: whether the answer has "counted".
Pvw(d, fp, b, sid, t) ==
    IF ~b.ok \/ b.video_id \notin DOMAIN d.videos
    THEN Answer(FALSE, d, [code |-> 200, has |-> FALSE, counted |-> FALSE])
    ELSE
        LET vid == b.video_id
            vk  == ViewKey(fp, vid)
        IN  IF t - LastView(d, vk) < ViewWindow
            THEN Answer(FALSE, d, [code |-> 200, has |-> TRUE, counted |-> FALSE])
            ELSE
                LET u  == UidUser(d, sid, t)
                    h0 == IF u \in DOMAIN d.hist THEN d.hist[u] ELSE <<>>
                    h1 == IF d.videos[vid].uid # u THEN HistAfter(h0, vid, t) ELSE h0
                    d1 == [d EXCEPT !.vlog = VlogAfter(@, vk, t),
                                    !.videos[vid].views = @ + 1,
                                    !.hist = IF u # NoUser THEN Put(@, u, h1) ELSE @]
                IN  Answer(TRUE, d1, [code |-> 200, has |-> TRUE, counted |-> TRUE])

----------------------------------------------------------------------------
(* fix_all_issues() *)

SessionKept == 86400

VlogCleaned == 86400

NotifKept == 2592000

HistKept == 7776000

\* the file of video vid in VIDS (os.path.basename of its url)
VidFile(vid) == [base |-> vid, ext |-> ".mp4"]

\* what the lists of f keep: the entries x with age(x) <= keep
KeepYoung(f, age(_), keep) ==
    [k \in DOMAIN f |-> SelectSeq(f[k], LAMBDA x : age(x) <= keep)]

\* the keys of f whose list holds an entry with age(x) > keep
WithOld(f, age(_), keep) ==
    {k \in DOMAIN f : \E i \in DOMAIN f[k] : age(f[k][i]) > keep}

\* os.remove(f) succeeds on a file and raises on a subdirectory of VIDS
Removable(f) == f.ext # "/"

\* a loop that reports an orphaned entry before it tries to remove it
OrphanFixesTried(orphaned) == {<<"orphaned", f>> : f \in orphaned}

\* the messages for the orphaned entries: one for each that was removed
OrphanFixes(orphaned) == {<<"orphaned", f>> : f \in {g \in orphaned : Removable(g)}}

\* view-log entries taken as old after an hour
OldLogsHour(vlog, t) == {k \in DOMAIN vlog : vlog[k] < t - VlogKept}

\* the view-log entries fix_all_issues takes as old
OldLogs(vlog, t) == {k \in DOMAIN vlog : vlog[k] < t - VlogCleaned}

\* d: the loaded document; files: os.listdir(VIDS).  The answer holds the
\* list of fixes (as a set: one message per kind and key) and the entries
\* left in VIDS.
FixAllIssues(d, t, files) ==
    LET oldSess  == {k \in DOMAIN d.sess : t - d.sess[k].cr > SessionKept}
        oldLogs  == OldLogs(d.vlog, t)
        dbFiles  == {VidFile(v) : v \in DOMAIN d.videos}
        orphaned == files \ dbFiles
        removed  == {f \in orphaned : Removable(f)}
        oldN     == WithOld(d.notifs, LAMBDA n : t - n.cr, NotifKept)
        oldH     == WithOld(d.hist, LAMBDA h : t - h.t, HistKept)
        fixes    == (IF oldSess # {} THEN {<<"sessions", Cardinality(oldSess)>>} ELSE {})
                    \cup (IF oldLogs # {} THEN {<<"view logs", Cardinality(oldLogs)>>} ELSE {})
                    \cup OrphanFixes(orphaned)
                    \cup {<<"notifications", k>> : k \in oldN}
                    \cup {<<"history", k>> : k \in oldH}
        d1       == [d EXCEPT !.sess   = Del(@, oldSess),
                              !.vlog   = Del(@, oldLogs),
                              !.notifs = KeepYoung(@, LAMBDA n : t - n.cr, NotifKept),
                              !.hist   = KeepYoung(@, LAMBDA h : t - h.t, HistKept),
                              !.health = [last_check |-> t, fixes |-> fixes]]
    IN  [saved |-> TRUE, db |-> d1, resp |-> [code |-> 200, fixes |-> fixes],
         files |-> files \ removed]

----------------------------------------------------------------------------
(* scan_auto_videos(): the folder import *)

VideoExts == {".mp4", ".webm", ".mkv", ".mov", ".avi"}

\* a check that never finds the file among the videos
AlreadyImportedNever(d, f) == FALSE

AlreadyImported(d, f) ==
    \E v \in DOMAIN d.videos : d.videos[v].auto_source = f

\* the first user of db["users"], in dict order, whose is_admin is set
FirstAdmin(d) ==
    LET idx == {i \in DOMAIN d.uorder : d.users[d.uorder[i]].is_admin}
    IN  IF idx = {} THEN NoUser
        ELSE d.uorder[CHOOSE i \in idx : \A j \in idx : i <= j]

SystemUser ==
    [ username |-> <<"s", "y", "s", "t", "e", "m">>,
      password |-> hp(<<"s", "y", "s", "t", "e", "m">>),
      is_admin |-> TRUE, is_banned |-> FALSE, is_verified |-> TRUE ]

\* the letters of the names of the files (the names have no "_" and no
\* "-", which the title would show as blanks)
Letters == [clip |-> <<"c", "l", "i", "p">>, notes |-> <<"n", "o", "t", "e", "s">>]

\* one file that is imported: a Video owned by the first admin, or by the
\* system user "0" created on the spot when the document has no admin
ImportFile(d, f, duration) ==
    LET vid   == NidVal(d, "v")
        d1    == NidDoc(d, "v")
        adm   == FirstAdmin(d1)
        d2    == IF adm # NoUser THEN d1
                 ELSE [d1 EXCEPT
                         !.users  = Put(@, 0, SystemUser),
                         !.uorder = IF 0 \in Range(@) THEN @ ELSE Append(@, 0)]
        owner == IF adm # NoUser THEN adm ELSE 0
    IN  [d2 EXCEPT !.videos = Put(@, vid,
            [ uid |-> owner, auto_source |-> f, duration |-> duration,
              title |-> Letters[f.name], desc |-> <<>>, tags |-> <<>>,
              is_short |-> IsShort(duration), hidden |-> FALSE,
              views |-> 0, qualities |-> <<"original">> ])]

ScanSkips(d, f) == AlreadyImported(d, f) \/ f.ext \notin VideoExts

\* the loop over os.listdir(AUTO_VIDS); fs: the listing, dur: what ffprobe
\* answers for each file (0 when it fails or is not installed)
RECURSIVE ScanFiles(_, _, _)
ScanFiles(d, fs, dur) ==
    IF fs = <<>> THEN [db |-> d, added |-> 0]
    ELSE
        LET f    == Head(fs)
            skip == ScanSkips(d, f)
            d1   == IF skip THEN d ELSE ImportFile(d, f, dur[f])
            rest == ScanFiles(d1, Tail(fs), dur)
        IN  [db |-> rest.db, added |-> rest.added + (IF skip THEN 0 ELSE 1)]

\* the document is saved only when something was added
ScanAutoVideos(d, fs, dur) ==
    LET r == ScanFiles(d, fs, dur)
    IN  Answer(r.added > 0, r.db, [code |-> 200, added |-> r.added])

----------------------------------------------------------------------------
(* admin(): the console.  Each menu loads the document after the operator  *)
(* chose an entry, asks for the identifier, changes its copy and saves.    *)

\* user_menu, entry 4: toggle is_admin
UserMenuAdmin(d, uid) ==
    IF uid \in DOMAIN d.users
    THEN Answer(TRUE, [d EXCEPT !.users[uid].is_admin = ~@], [code |-> 200])
    ELSE Err(d, 404)

\* user_menu, entry 3: toggle is_verified
UserMenuVerify(d, uid) ==
    IF uid \in DOMAIN d.users
    THEN Answer(TRUE, [d EXCEPT !.users[uid].is_verified = ~@], [code |-> 200])
    ELSE Err(d, 404)

\* a deletion that drops the subscriptions the user made, not those to
\* the user's channel
UserMenuDeleteOwnSubs(d, uid) ==
    IF uid \in DOMAIN d.users
    THEN Answer(TRUE,
             [d EXCEPT
                !.users    = Del(@, {uid}),
                !.uorder   = SelectSeq(@, LAMBDA x : x # uid),
                !.sess     = Keep(@, {k \in DOMAIN @ : @[k].uid # uid}),
                !.videos   = Keep(@, {k \in DOMAIN @ : @[k].uid # uid}),
                !.comments = Keep(@, {k \in DOMAIN @ : @[k].uid # uid}),
                !.likes    = BagKeep(@, {l \in DOMAIN @ : l.uid # uid}),
                !.subs     = BagKeep(@, {x \in DOMAIN @ : x.sub # uid}),
                !.notifs   = Del(@, {uid}),
                !.hist     = Del(@, {uid})],
             [code |-> 200])
    ELSE Err(d, 404)

\* a ban that leaves the user's sessions in place
UserMenuBanOnly(d, uid) ==
    IF uid \in DOMAIN d.users
    THEN Answer(TRUE, [d EXCEPT !.users[uid].is_banned = ~@],
                [code |-> 200, banned |-> ~d.users[uid].is_banned])
    ELSE Err(d, 404)

\* user_menu, entry 2: ban or free a user; a ban drops the user's sessions
UserMenuBan(d, uid) ==
    IF uid \in DOMAIN d.users
    THEN LET banned == ~d.users[uid].is_banned
         IN  Answer(TRUE,
                 [d EXCEPT !.users[uid].is_banned = banned,
                           !.sess = IF banned
                                    THEN Keep(@, {k \in DOMAIN @ : @[k].uid # uid})
                                    ELSE @],
                 [code |-> 200, banned |-> banned])
    ELSE Err(d, 404)

\* user_menu, entry 5: delete a user, with the sessions, videos, comments,
\* likes, subscriptions, notifications and history that are the user's
UserMenuDelete(d, uid) ==
    IF uid \in DOMAIN d.users
    THEN Answer(TRUE,
             [d EXCEPT
                !.users    = Del(@, {uid}),
                !.uorder   = SelectSeq(@, LAMBDA x : x # uid),
                !.sess     = Keep(@, {k \in DOMAIN @ : @[k].uid # uid}),
                !.videos   = Keep(@, {k \in DOMAIN @ : @[k].uid # uid}),
                !.comments = Keep(@, {k \in DOMAIN @ : @[k].uid # uid}),
                !.likes    = BagKeep(@, {l \in DOMAIN @ : l.uid # uid}),
                !.subs     = BagKeep(@, {x \in DOMAIN @ : x.sub # uid /\ x.ch # uid}),
                !.notifs   = Del(@, {uid}),
                !.hist     = Del(@, {uid})],
             [code |-> 200])
    ELSE Err(d, 404)

\* video_menu, entry 2: delete a video, with its comments and likes
VideoMenuDelete(d, vid) ==
    IF vid \in DOMAIN d.videos
    THEN Answer(TRUE,
             [d EXCEPT
                !.videos   = Del(@, {vid}),
                !.comments = Keep(@, {k \in DOMAIN @ : @[k].vid # vid}),
                !.likes    = BagKeep(@, {l \in DOMAIN @ : l.vid # vid})],
             [code |-> 200])
    ELSE Err(d, 404)

\* system_menu, entry 1: toggle settings.reg
SystemMenuReg(d) ==
    Answer(TRUE, [d EXCEPT !.settings.reg = ~@], [code |-> 200])

----------------------------------------------------------------------------
(* Inputs *)

Bob == <<"b", "o", "b">>

BOB == <<"B", "O", "B">>

Sys == <<"S", "y", "s", "t", "e", "m">>

Ab == <<"a", "b">>

Names == {Bob, BOB, Sys, Ab}

Passwords == {<<"p", "w", "1", "2">>, <<"p", "w">>}

Bodies ==
    {[ok |-> FALSE]} \cup
    {[ok |-> TRUE, username |-> un, password |-> pw] : un \in Names, pw \in Passwords}

F1 == [name |-> "clip", ext |-> ".mp4"]

F2 == [name |-> "notes", ext |-> ".txt"]

Files == {F1, F2}

\* the orders in which os.listdir can return the files of S
Listings(S) ==
    {s \in [1..Cardinality(S) -> S] : \A i, j \in DOMAIN s : i # j => s[i] # s[j]}

\* identifiers a client or the operator can name
UserIds == 0..MaxUsers

----------------------------------------------------------------------------
(* Threads.  main() starts the console thread and the scan thread, and     *)
(* serves the requests itself: Srv is a plain socketserver.TCPServer, so   *)
(* one request is handled at a time.                                       *)

Handlers == {"h1", "h2"}

Threads == Handlers \cup {"admin", "scan", "tc"}

NoThread == "none"

NoReq == [op |-> "none"]

\* the identifiers a handler issued: those between the counter it loaded
\* and the counter it leaves
IssuedBy(d, d2, k) == [i \in 1..(d2.cnt[k] - d.cnt[k]) |-> d.cnt[k] + i]

Log(d, d2) == [k \in {"u", "v", "c"} |-> issued[k] \o IssuedBy(d, d2, k)]

InitCommon ==
    /\ now = 0
    /\ drop = {}
    /\ resp = [req |-> NoReq, out |-> [code |-> 0]]
    /\ pc = [t \in Threads |-> "idle"]
    /\ db = [t \in Threads |-> E]
    /\ req = [t \in Threads |-> NoReq]
    /\ issued = [k \in {"u", "v", "c"} |-> <<>>]
    /\ lk = NoThread
    /\ vids = {}
    /\ seen = Empty

\* first start: no db.json yet
Init ==
    /\ file = Missing
    /\ InitCommon

\* A request or console action carried out in one piece (nothing else runs
\* between its load and its save): a is the Answer computed from the loaded
\* document d0.
Atomic(d0, a, r) ==
    /\ file' = IF a.saved THEN W(a.db) ELSE LoadFile(file)
    /\ issued' = Log(d0, a.db)
    /\ resp' = [req |-> r, out |-> a.resp]
    /\ UNCHANGED <<vids, seen, now, drop, pc, db, req, lk>>

\* a file appears in the AUTO_VIDS folder
DropFile ==
    /\ \E f \in Files \ drop :
           /\ drop' = drop \cup {f}
           /\ resp' = [req |-> [op |-> "drop", f |-> f], out |-> [code |-> 0]]
    /\ UNCHANGED <<vids, seen, file, now, pc, db, req, issued, lk>>

----------------------------------------------------------------------------
(* SpecReg: accounts.  Registration, the folder import and the console     *)
(* entries that change is_admin and settings.reg, each in one piece.       *)

RegisterStep ==
    \E b \in Bodies :
        LET d0 == Load(file)
            a  == Preg(d0, b, now)
        IN  /\ a.saved => d0.cnt.u < MaxUsers
            /\ Atomic(d0, a, [op |-> "register", body |-> b])

ScanStep ==
    \E fs \in Listings(drop) :
        LET d0 == Load(file)
            a  == ScanAutoVideos(d0, fs, [f \in drop |-> 0])
        IN  /\ a.db.cnt.v <= MaxVideos
            /\ Atomic(d0, a, [op |-> "scan"])

ConsoleAdminStep ==
    \E uid \in UserIds :
        LET d0 == Load(file)
        IN  Atomic(d0, UserMenuAdmin(d0, uid), [op |-> "console_admin", uid |-> uid])

ConsoleRegStep ==
    LET d0 == Load(file)
    IN  Atomic(d0, SystemMenuReg(d0), [op |-> "console_reg"])

NextReg ==
    \/ RegisterStep
    \/ DropFile
    \/ ScanStep
    \/ ConsoleAdminStep
    \/ ConsoleRegStep

SpecReg == Init /\ [][NextReg]_vars

----------------------------------------------------------------------------
(* A request handler carried out in one piece.  It calls uid() first,      *)
(* which loads the document and, when the session has expired, deletes it  *)
(* and saves; then it loads the document and runs its body H.              *)

HandlerStep(sid, H(_, _), r) ==
    LET d0 == Load(file)
        u  == UidUser(d0, sid, now)
        d1 == UidDoc(d0, sid, now)
        a  == H(d1, u)
    IN  /\ file' = IF a.saved THEN W(a.db) ELSE Stored(d1)
        /\ issued' = Log(d1, a.db)
        /\ resp' = [req |-> r @@ [u |-> u], out |-> a.resp]
        /\ UNCHANGED <<vids, seen, now, drop, pc, db, req, lk>>

\* the document a handler called with cookie sid works on
Loaded(sid) == UidDoc(Load(file), sid, now)

\* cookies a client can send: none, the tokens handed out, an unknown one
Sids == {NoSid} \cup DOMAIN Load(file).sess \cup {Uuid8(Load(file).sess)}

VideoIds == 1..(MaxVideos + 1)

\* registrations of SpecLike and SpecSub: two valid, different names
TwoBodies ==
    {[ok |-> TRUE, username |-> un, password |-> <<"p", "w", "1", "2">>] : un \in {Bob, Sys}}

RegisterTwo ==
    \E b \in TwoBodies :
        LET d0 == Load(file)
            a  == Preg(d0, b, now)
        IN  /\ a.saved => d0.cnt.u < MaxUsers
            /\ Atomic(d0, a, [op |-> "register", body |-> b])

Forms ==
    { [video |-> TRUE, size_mb |-> 10, duration |-> 90, quality |-> "720p"],
      [video |-> FALSE, size_mb |-> 0, duration |-> 0, quality |-> "720p"],
      [video |-> TRUE, size_mb |-> 600, duration |-> 90, quality |-> "720p"] }

UploadStep ==
    \E sid \in Sids, f \in Forms :
        /\ Pup(Loaded(sid), UidUser(Load(file), sid, now), f, now).saved
               => Loaded(sid).cnt.v < MaxVideos
        /\ HandlerStep(sid, LAMBDA d, u : Pup(d, u, f, now), [op |-> "upload", form |-> f])

\* values a client can send with a like request
LikeVals == {1, 0 - 1, 0}

LikeStep ==
    \E sid \in Sids, vid \in VideoIds, val \in LikeVals :
        LET b == [ok |-> TRUE, video_id |-> vid, value |-> val]
        IN  HandlerStep(sid, LAMBDA d, u : Plk(d, u, b), [op |-> "like", body |-> b])

SubscribeStep ==
    \E sid \in Sids, ch \in UserIds :
        LET b == [ok |-> TRUE, channel_id |-> ch]
            a == Psub(Loaded(sid), UidUser(Load(file), sid, now), b, now)
        IN  /\ \A x \in DOMAIN a.db.notifs : Len(a.db.notifs[x]) <= MaxNotifs
            /\ HandlerStep(sid, LAMBDA d, u : Psub(d, u, b, now),
                   [op |-> "subscribe", body |-> b, before |-> Load(file).subs])

----------------------------------------------------------------------------
(* SpecLike: likes.  Registration, upload and like requests.               *)

NextLike ==
    \/ RegisterTwo
    \/ UploadStep
    \/ LikeStep

SpecLike == Init /\ [][NextLike]_vars

----------------------------------------------------------------------------
(* SpecSub: subscriptions.  Registration and subscribe requests.           *)

NextSub ==
    \/ RegisterTwo
    \/ SubscribeStep

SpecSub == Init /\ [][NextSub]_vars

----------------------------------------------------------------------------
(* Threads at the grain of DB.load and DB.save.  The serving thread takes  *)
(* the requests one after the other (slots h1, h2 hold requests that have  *)
(* arrived); the scan thread, the console thread and a do_transcode thread *)
(* run beside it.  Each loads the document, works on its copy and saves.   *)

PwOk == <<"p", "w", "1", "2">>

RegBody(un) == [ok |-> TRUE, username |-> un, password |-> PwOk]

Form720 == [video |-> TRUE, size_mb |-> 10, duration |-> 90, quality |-> "720p"]

\* the document after two registrations, and after an upload by the first
\* user
TwoUsers == Preg(Preg(E, RegBody(Bob), 0).db, RegBody(Sys), 0).db

OneVideo == Pup(TwoUsers, 1, Form720, 0).db

\* the identifiers DB.nid handed out on the way to document d
IssuedIn(d) == [k \in {"u", "v", "c"} |-> [i \in 1..d.cnt[k] |-> i]]

\* what document d holds, entry by entry
Entries(d) ==
    {<<"users", k, d.users[k]>> : k \in DOMAIN d.users} \cup
    {<<"videos", k, d.videos[k]>> : k \in DOMAIN d.videos} \cup
    {<<"comments", k, d.comments[k]>> : k \in DOMAIN d.comments} \cup
    {<<"likes", k, d.likes[k]>> : k \in DOMAIN d.likes} \cup
    {<<"sess", k, d.sess[k]>> : k \in DOMAIN d.sess} \cup
    {<<"notifs", k, d.notifs[k]>> : k \in DOMAIN d.notifs}

\* what has been stored since thread t loaded its copy
StoredSince(t) == Entries(Load(file)) \ Entries(db[t])

\* resp for the threads: who ended (by), its request and answer, whether it
\* called DB.save, what had been stored since its load (since), whether
\* its request was in flight while the request answered before it was
\* handled (over), and the requests in flight when it ended (others)
NoResp ==
    [ by |-> NoThread, req |-> NoReq, out |-> [code |-> 0], saved |-> FALSE,
      since |-> {}, over |-> FALSE, others |-> {} ]

\* the server running with document d stored and the files fs in AUTO_VIDS
InitAt(d, fs) ==
    /\ file = Stored(d)
    /\ now = 0
    /\ drop = fs
    /\ resp = NoResp
    /\ pc = [t \in Threads |-> "idle"]
    /\ db = [t \in Threads |-> E]
    /\ req = [t \in Threads |-> NoReq]
    /\ issued = IssuedIn(d)
    /\ lk = NoThread
    /\ vids = {}
    /\ seen = Empty

\* the cookies of the two users, and the video requests name
ClientSids == DOMAIN TwoUsers.sess

ClientVideos == DOMAIN OneVideo.videos

\* the user the operator names at the console
ConsoleIds == {FirstAdmin(TwoUsers)}

\* the log of identifiers stays within the bound
Within(log) == \A k \in DOMAIN log : Len(log[k]) <= MaxIssued

LikeReqs ==
    { [op |-> "like", sid |-> sid, u |-> NoUser,
       body |-> [ok |-> TRUE, video_id |-> vid, value |-> 1]] :
         sid \in ClientSids, vid \in ClientVideos }

CommentReqs ==
    { [op |-> "comment", sid |-> sid, u |-> NoUser,
       body |-> [ok |-> TRUE, video_id |-> vid, text |-> <<"h", "i", " ">>]] :
         sid \in ClientSids, vid \in ClientVideos }

UploadReqs ==
    { [op |-> "upload", sid |-> sid, u |-> NoUser, form |-> Form720] : sid \in ClientSids }

TranscodeReqs ==
    { [op |-> "transcode", sid |-> sid, u |-> NoUser, source |-> TRUE,
       body |-> [ok |-> TRUE, video_id |-> vid, quality |-> "360p"]] :
         sid \in ClientSids, vid \in ClientVideos }

\* H.pscan: POST /api/scan, for admins.  The handler loads the document
\* for the admin check and scan_auto_videos() loads it again; the two loads
\* are taken as one.  The listing is one of the orders of os.listdir, and
\* ffprobe gives no duration.
Pscan(d, u) ==
    IF u = NoUser THEN Err(d, 401)
    ELSE IF ~(u \in DOMAIN d.users /\ d.users[u].is_admin) THEN Err(d, 403)
    ELSE ScanAutoVideos(d, CHOOSE fs \in Listings(drop) : TRUE, [f \in drop |-> 0])

\* do_POST: the handler of request r run on the loaded document d
Handle(r, d) ==
    CASE r.op = "like"      -> Plk(d, r.u, r.body)
      [] r.op = "comment"   -> Pcm(d, r.u, r.body, now)
      [] r.op = "upload"    -> Pup(d, r.u, r.form, now)
      [] r.op = "transcode" -> Ptr(d, r.u, r.body, r.source)
      [] r.op = "subscribe" -> Psub(d, r.u, r.body, now)
      [] r.op = "login"     -> Plog(d, r.body, now)
      [] r.op = "logout"    -> Plout(d, r.sid)
      [] r.op = "scan"      -> Pscan(d, r.u)

\* (mutant: a server that handles each request in a thread of its own)
ServingThreaded(h) == TRUE

\* Srv is a socketserver.TCPServer without ThreadingMixIn: a request is
\* taken up when no other is being handled
Serving(h) == \A o \in Handlers \ {h} : pc[o] \notin {"authed", "loaded"}

\* a request reaches the listening socket
Arrive(h, R) ==
    /\ pc[h] = "idle"
    /\ \E r \in R : req' = [req EXCEPT ![h] = r]
    /\ pc' = [pc EXCEPT ![h] = "queued"]
    /\ UNCHANGED <<vids, seen, file, now, drop, resp, db, issued, lk>>

\* the handler starts: uid()
Begin(h) ==
    /\ pc[h] = "queued"
    /\ Serving(h)
    /\ file' = Stored(UidDoc(Load(file), req[h].sid, now))
    /\ req' = [req EXCEPT ![h].u = UidUser(Load(file), req[h].sid, now)]
    /\ pc' = [pc EXCEPT ![h] = "authed"]
    /\ UNCHANGED <<vids, seen, now, drop, resp, db, issued, lk>>

\* db = DB.load()
HLoad(h) ==
    LET a == Handle(req[h], Load(file))
    IN  /\ pc[h] = "authed"
        /\ Within(Log(Load(file), a.db))
        /\ db' = [db EXCEPT ![h] = Load(file)]
        /\ file' = LoadFile(file)
        /\ pc' = [pc EXCEPT ![h] = "loaded"]
        /\ UNCHANGED <<vids, seen, now, drop, resp, req, issued, lk>>

\* the rest of the handler: the change, DB.save(db), the response; a
\* transcode request that is accepted starts the do_transcode thread
Finish(h) ==
    LET a       == Handle(req[h], db[h])
        started == req[h].op = "transcode" /\ a.resp.started
    IN  /\ pc[h] = "loaded"
        /\ started => pc["tc"] = "idle"
        /\ Within(Log(db[h], a.db))
        /\ file' = IF a.saved THEN W(a.db) ELSE file
        /\ issued' = Log(db[h], a.db)
        /\ resp' = [ by |-> h, req |-> req[h], out |-> a.resp, saved |-> a.saved,
                     since |-> StoredSince(h), over |-> h \in resp.others,
                     others |-> {o \in Handlers \ {h} : pc[o] # "idle"} ]
        /\ pc' = [pc EXCEPT ![h] = "idle", !["tc"] = IF started THEN "started" ELSE @]
        /\ req' = [req EXCEPT ![h] = NoReq,
                              !["tc"] = IF started
                                        THEN [ op |-> "do_transcode", vid |-> req[h].body.video_id,
                                               quality |-> req[h].body.quality ]
                                        ELSE @]
        /\ db' = [db EXCEPT ![h] = E]
        /\ UNCHANGED <<vids, seen, now, drop, lk>>

\* SpecConc explores one background thread between its load and its save
\* at a time
Background == {"scan", "admin", "tc"}

OneAtATime(t) == \A o \in Background \ {t} : pc[o] # "loaded"

\* a background thread t loads the document for the work r
BgLoad(t, r) ==
    /\ OneAtATime(t)
    /\ db' = [db EXCEPT ![t] = Load(file)]
    /\ file' = LoadFile(file)
    /\ pc' = [pc EXCEPT ![t] = "loaded"]
    /\ req' = [req EXCEPT ![t] = r]
    /\ UNCHANGED <<vids, seen, now, drop, resp, issued, lk>>

\* a background thread t ends its work with the Answer a
BgFinish(t, a) ==
    /\ file' = IF a.saved THEN W(a.db) ELSE file
    /\ issued' = Log(db[t], a.db)
    /\ resp' = [ by |-> t, req |-> req[t], out |-> a.resp, saved |-> a.saved,
                 since |-> StoredSince(t), over |-> FALSE, others |-> {} ]
    /\ pc' = [pc EXCEPT ![t] = "idle"]
    /\ req' = [req EXCEPT ![t] = NoReq]
    /\ db' = [db EXCEPT ![t] = E]
    /\ UNCHANGED <<vids, seen, now, drop, lk>>

\* auto_scan_loop wakes up: scan_auto_videos() loads the document
ScanLoad ==
    /\ pc["scan"] = "idle"
    /\ BgLoad("scan", [op |-> "scan"])

\* scan_auto_videos(): the loop over the folder, and the save
ScanFinish ==
    /\ pc["scan"] = "loaded"
    /\ \E fs \in Listings(drop) :
           LET a == ScanAutoVideos(db["scan"], fs, [f \in drop |-> 0])
           IN  /\ Within(Log(db["scan"], a.db))
               /\ BgFinish("scan", a)

\* user_menu: the operator has chosen entry 3; the document is loaded
AdminLoad ==
    /\ pc["admin"] = "idle"
    /\ BgLoad("admin", [op |-> "console_verify"])

\* user_menu, entry 3: the operator has typed the identifier
AdminAct ==
    /\ pc["admin"] = "loaded"
    /\ \E uid \in ConsoleIds : BgFinish("admin", UserMenuVerify(db["admin"], uid))

\* do_transcode: transcode_video() returns; with a path, the document is
\* loaded
TcRun ==
    /\ pc["tc"] = "started"
    /\ \E ffmpeg \in Ffmpeg :
           IF TranscodeVideo(req["tc"].quality, ffmpeg)
           THEN BgLoad("tc", [ op |-> "do_transcode", vid |-> req["tc"].vid,
                               quality |-> req["tc"].quality, end |-> ffmpeg.end ])
           ELSE /\ pc' = [pc EXCEPT !["tc"] = "idle"]
                /\ req' = [req EXCEPT !["tc"] = NoReq]
                /\ UNCHANGED <<vids, seen, file, now, drop, resp, db, issued, lk>>

\* do_transcode: the quality is recorded and the document saved
TcFinish ==
    /\ pc["tc"] = "loaded"
    /\ BgFinish("tc", DoTranscode(db["tc"], req["tc"].vid, req["tc"].quality))

----------------------------------------------------------------------------
(* SpecReq: two like requests in flight at once, nothing else running.     *)

NextReq ==
    \/ \E h \in Handlers : Arrive(h, LikeReqs)
    \/ \E h \in Handlers : Begin(h)
    \/ \E h \in Handlers : HLoad(h)
    \/ \E h \in Handlers : Finish(h)

SpecReq == InitAt(OneVideo, {}) /\ [][NextReq]_vars

----------------------------------------------------------------------------
(* SpecConc: requests beside the scan thread, the console and              *)
(* do_transcode, with a video file lying in AUTO_VIDS.                     *)

ConcReqs == CommentReqs \cup TranscodeReqs

NextConc ==
    \/ Arrive("h1", ConcReqs)
    \/ Begin("h1")
    \/ HLoad("h1")
    \/ Finish("h1")
    \/ ScanLoad
    \/ ScanFinish
    \/ AdminLoad
    \/ AdminAct
    \/ TcRun
    \/ TcFinish

SpecConc == InitAt(TwoUsers, {F1}) /\ [][NextConc]_vars

----------------------------------------------------------------------------
(* SpecDel: comment and subscribe requests beside the console's user       *)
(* deletion.                                                               *)

SubReqs ==
    { [op |-> "subscribe", sid |-> sid, u |-> NoUser,
       body |-> [ok |-> TRUE, channel_id |-> ch]] :
         sid \in ClientSids, ch \in DOMAIN TwoUsers.users }

DelReqs == CommentReqs \cup SubReqs

\* the end of a handler whose notifications stay within the bound
DelFinish(h) ==
    /\ Finish(h)
    /\ NotifCount(Load(file').notifs) <= MaxNotifs

\* user_menu: the operator has chosen entry 5; the document is loaded
AdminDelLoad ==
    /\ pc["admin"] = "idle"
    /\ BgLoad("admin", [op |-> "console_delete_user"])

\* user_menu, entry 5: the operator has typed the identifier
AdminDelAct ==
    /\ pc["admin"] = "loaded"
    /\ \E uid \in DOMAIN TwoUsers.users : BgFinish("admin", UserMenuDelete(db["admin"], uid))

NextDel ==
    \/ Arrive("h1", DelReqs)
    \/ Begin("h1")
    \/ HLoad("h1")
    \/ DelFinish("h1")
    \/ AdminDelLoad
    \/ AdminDelAct

SpecDel == InitAt(OneVideo, {}) /\ [][NextDel]_vars

----------------------------------------------------------------------------
(* SpecBan: login requests beside the console's ban entry.                 *)

LoginReqs ==
    { [op |-> "login", sid |-> NoSid, u |-> NoUser,
       body |-> [ok |-> TRUE, username |-> un, password |-> PwOk]] : un \in {BOB, Sys} }

\* the end of a handler whose sessions stay within the bound
BanFinish(h) ==
    /\ Finish(h)
    /\ Cardinality(DOMAIN Load(file').sess) <= MaxSessions

\* user_menu: the operator has chosen entry 2; the document is loaded
AdminBanLoad ==
    /\ pc["admin"] = "idle"
    /\ BgLoad("admin", [op |-> "console_ban"])

\* user_menu, entry 2: the operator has typed the identifier
AdminBanAct ==
    /\ pc["admin"] = "loaded"
    /\ \E uid \in DOMAIN TwoUsers.users : BgFinish("admin", UserMenuBan(db["admin"], uid))

NextBan ==
    \/ Arrive("h1", LoginReqs)
    \/ Begin("h1")
    \/ HLoad("h1")
    \/ BanFinish("h1")
    \/ AdminBanLoad
    \/ AdminBanAct

SpecBan == InitAt(OneVideo, {}) /\ [][NextBan]_vars

----------------------------------------------------------------------------
(* SpecOut: logout and comment requests beside the console's verify entry. *)
(* No request logs in, so the tokens are those handed out at the start.    *)

LogoutReqs == { [op |-> "logout", sid |-> sid, u |-> NoUser] : sid \in ClientSids }

NextOut ==
    \/ Arrive("h1", LogoutReqs \cup CommentReqs)
    \/ Begin("h1")
    \/ HLoad("h1")
    \/ Finish("h1")
    \/ AdminLoad
    \/ AdminAct

SpecOut == InitAt(OneVideo, {}) /\ [][NextOut]_vars

----------------------------------------------------------------------------
(* SpecScan: the periodic scan, scans on demand from the console and from  *)
(* POST /api/scan, and uploads, with a video file and a text file lying in *)
(* AUTO_VIDS.  The two scanning threads may both be between load and save. *)

ScanReqs == { [op |-> "scan", sid |-> sid, u |-> NoUser] : sid \in ClientSids }

\* scan_auto_videos() in thread t: db = DB.load()
ScannerLoad(t, r) ==
    /\ pc[t] = "idle"
    /\ db' = [db EXCEPT ![t] = Load(file)]
    /\ file' = LoadFile(file)
    /\ pc' = [pc EXCEPT ![t] = "loaded"]
    /\ req' = [req EXCEPT ![t] = r]
    /\ UNCHANGED <<vids, seen, now, drop, resp, issued, lk>>

\* scan_auto_videos() in thread t: the loop over the folder, and the save
ScannerFinish(t) ==
    /\ pc[t] = "loaded"
    /\ \E fs \in Listings(drop) :
           LET a == ScanAutoVideos(db[t], fs, [f \in drop |-> 0])
           IN  /\ Within(Log(db[t], a.db))
               /\ BgFinish(t, a)

NextScan ==
    \/ Arrive("h1", ScanReqs \cup UploadReqs)
    \/ Begin("h1")
    \/ HLoad("h1")
    \/ Finish("h1")
    \/ ScannerLoad("scan", [op |-> "scan"])
    \/ ScannerFinish("scan")
    \/ ScannerLoad("admin", [op |-> "scan"])
    \/ ScannerFinish("admin")

SpecScan == InitAt(TwoUsers, {F1, F2}) /\ [][NextScan]_vars

----------------------------------------------------------------------------
(* SpecLock: DB.load and DB.save step by step.  Three threads load the     *)
(* document, take an identifier with DB.nid and save, or load only.  The   *)
(* server starts with no db.json, with one that does not parse, or with a  *)
(* stored document.                                                        *)

LockThreads == {"h1", "scan", "admin"}

\* where a thread stands inside `with cls._lk`
Inside == {"load_locked", "load_write", "load_exit", "save_locked", "save_write", "save_exit"}

\* (mutant: a lock that admits every thread)
AcquirableAlways == TRUE

\* `with cls._lk` is entered when no thread holds the lock
Acquirable == lk = NoThread

\* load: the lock is taken
LoadEnter(t) ==
    /\ pc[t] = "idle"
    /\ Acquirable
    /\ lk' = t
    /\ pc' = [pc EXCEPT ![t] = "load_locked"]
    /\ UNCHANGED <<vids, seen, file, now, drop, resp, db, req, issued>>

\* load: the file is read.  Without a file, or with one that json.load
\* rejects (a file whose dump has not ended is one), the default document is
\* written: open(DBFILE, "w") truncates the file
LoadRead(t) ==
    /\ pc[t] = "load_locked"
    /\ IF file.st = "ok"
       THEN /\ db' = [db EXCEPT ![t] = file.doc]
            /\ pc' = [pc EXCEPT ![t] = "load_exit"]
            /\ UNCHANGED file
       ELSE /\ db' = [db EXCEPT ![t] = E]
            /\ pc' = [pc EXCEPT ![t] = "load_write"]
            /\ file' = Partial
    /\ UNCHANGED <<vids, seen, now, drop, resp, req, issued, lk>>

\* load: json.dump of the default document ends
LoadWrite(t) ==
    /\ pc[t] = "load_write"
    /\ file' = W(db[t])
    /\ pc' = [pc EXCEPT ![t] = "load_exit"]
    /\ UNCHANGED <<vids, seen, now, drop, resp, db, req, issued, lk>>

\* load: the with block is left
LoadExit(t) ==
    /\ pc[t] = "load_exit"
    /\ lk' = NoThread
    /\ pc' = [pc EXCEPT ![t] = "loaded"]
    /\ UNCHANGED <<vids, seen, file, now, drop, resp, db, req, issued>>

\* the caller ends without saving
Return(t) ==
    /\ pc[t] = "loaded"
    /\ pc' = [pc EXCEPT ![t] = "idle"]
    /\ db' = [db EXCEPT ![t] = E]
    /\ UNCHANGED <<vids, seen, file, now, drop, resp, req, issued, lk>>

\* the caller takes an identifier and calls save: the lock is taken
SaveEnter(t) ==
    /\ pc[t] = "loaded"
    /\ Acquirable
    /\ Within(Log(db[t], NidDoc(db[t], "c")))
    /\ issued' = Log(db[t], NidDoc(db[t], "c"))
    /\ db' = [db EXCEPT ![t] = NidDoc(@, "c")]
    /\ lk' = t
    /\ pc' = [pc EXCEPT ![t] = "save_locked"]
    /\ UNCHANGED <<vids, seen, file, now, drop, resp, req>>

\* save: open(DBFILE, "w") truncates the file
SaveOpen(t) ==
    /\ pc[t] = "save_locked"
    /\ file' = Partial
    /\ pc' = [pc EXCEPT ![t] = "save_write"]
    /\ UNCHANGED <<vids, seen, now, drop, resp, db, req, issued, lk>>

\* save: json.dump ends
SaveWrite(t) ==
    /\ pc[t] = "save_write"
    /\ file' = W(db[t])
    /\ pc' = [pc EXCEPT ![t] = "save_exit"]
    /\ UNCHANGED <<vids, seen, now, drop, resp, db, req, issued, lk>>

\* save: the with block is left
SaveExit(t) ==
    /\ pc[t] = "save_exit"
    /\ lk' = NoThread
    /\ pc' = [pc EXCEPT ![t] = "idle"]
    /\ db' = [db EXCEPT ![t] = E]
    /\ UNCHANGED <<vids, seen, file, now, drop, resp, req, issued>>

InitLock ==
    /\ file \in {Missing, Garbage, Stored(TwoUsers)}
    /\ now = 0
    /\ drop = {}
    /\ resp = NoResp
    /\ pc = [t \in Threads |-> "idle"]
    /\ db = [t \in Threads |-> E]
    /\ req = [t \in Threads |-> NoReq]
    /\ issued = IssuedIn(Load(file))
    /\ lk = NoThread
    /\ vids = {}
    /\ seen = Empty

\* the steps a thread takes while it holds the lock
InsideStep ==
    \E t \in LockThreads :
        LoadRead(t) \/ LoadWrite(t) \/ LoadExit(t) \/ SaveOpen(t) \/ SaveWrite(t) \/ SaveExit(t)

NextLock ==
    \/ \E t \in LockThreads : LoadEnter(t)
    \/ \E t \in LockThreads : LoadRead(t)
    \/ \E t \in LockThreads : LoadWrite(t)
    \/ \E t \in LockThreads : LoadExit(t)
    \/ \E t \in LockThreads : Return(t)
    \/ \E t \in LockThreads : SaveEnter(t)
    \/ \E t \in LockThreads : SaveOpen(t)
    \/ \E t \in LockThreads : SaveWrite(t)
    \/ \E t \in LockThreads : SaveExit(t)

\* a thread inside the with block runs on: nothing in it waits
SpecLock == InitLock /\ [][NextLock]_vars /\ WF_vars(InsideStep)

----------------------------------------------------------------------------
(* Specifications in which time passes.  The clock starts at Start, later  *)
(* than any retention period, so that time.time() minus a missing time     *)
(* stamp (taken as 0) is large, as it is on a real clock.                  *)

Start == 2 * HistKept

\* the document after two registrations and an upload by the first user, all
\* at time t
UsersAt(t) == Preg(Preg(E, RegBody(Bob), t).db, RegBody(Sys), t).db

VideoAt(t) == Pup(UsersAt(t), 1, Form720, t).db

\* the server running at time t with document d stored and the files fs in
\* VIDS
InitStored(d, t, fs) ==
    /\ file = Stored(d)
    /\ now = t
    /\ drop = {}
    /\ resp = [req |-> NoReq, out |-> [code |-> 0]]
    /\ pc = [th \in Threads |-> "idle"]
    /\ db = [th \in Threads |-> E]
    /\ req = [th \in Threads |-> NoReq]
    /\ issued = IssuedIn(d)
    /\ lk = NoThread
    /\ vids = fs
    /\ seen = Empty

\* time passes: the clock reaches a later one of the instants S (seconds
\* after Start) at which the specification looks at the server
Tick(S) ==
    \E x \in S :
        /\ now < Start + x
        /\ now' = Start + x
        /\ resp' = [req |-> [op |-> "tick", at |-> x], out |-> [code |-> 0]]
        /\ UNCHANGED <<file, drop, pc, db, req, issued, lk, vids, seen>>

\* fix_all_issues(), from the console's health menu or POST /api/fix;
\* prior: the number of fixes of the run just before, if this run follows
\* one directly
FixStep ==
    LET a == FixAllIssues(Load(file), now, vids)
    IN  /\ file' = W(a.db)
        /\ vids' = a.files
        /\ resp' = [req |-> [op |-> "fix", prior |-> IF resp.req.op = "fix"
                                                       THEN Cardinality(resp.out.fixes)
                                                       ELSE 0 - 1],
                    out |-> a.resp]
        /\ UNCHANGED <<now, drop, pc, db, req, issued, lk, seen>>

Fingerprints == {"fp1", "fp2"}

\* a view request; seen records the answer "counted"
ViewStep ==
    \E fp \in Fingerprints, vid \in VideoIds, sid \in {NoSid} \cup DOMAIN Load(file).sess :
        LET b == [ok |-> TRUE, video_id |-> vid]
            a == Pvw(Load(file), fp, b, sid, now)
        IN  /\ file' = IF a.saved THEN W(a.db) ELSE LoadFile(file)
            /\ seen' = IF a.resp.counted THEN Put(seen, <<fp, vid>>, now) ELSE seen
            /\ resp' = [req |-> [op |-> "view", fp |-> fp, body |-> b, sid |-> sid],
                        out |-> a.resp]
            /\ UNCHANGED <<now, drop, pc, db, req, issued, lk, vids>>

----------------------------------------------------------------------------
(* SpecView: view requests, the clock and fix_all_issues.                  *)

\* half a window and a window after Start; the age at which a counted
\* view drops an entry; and past the age at which fix_all_issues drops one
ViewInstants ==
    {ViewWindow \div 2, ViewWindow, VlogKept, VlogCleaned + ViewWindow}

NextView ==
    \/ ViewStep
    \/ Tick(ViewInstants)
    \/ FixStep

SpecView == InitStored(VideoAt(Start), Start, {VidFile(1)}) /\ [][NextView]_vars

----------------------------------------------------------------------------
(* SpecAdmin: two users, a video of the first, and the requests and        *)
(* console entries that write comments, likes, subscriptions and history   *)
(* and delete videos and users, each in one piece.                         *)
(* SpecPin: the same two users and video, and the requests that write,     *)
(* pin and delete comments.                                                *)

\* cookies of SpecAdmin: none, and the tokens handed out
LiveSids == {NoSid} \cup DOMAIN Load(file).sess

\* cookies of the clients that are logged in
UserSids == DOMAIN Load(file).sess

CommentIds == 1..MaxComments

\* a handler that touches no media file; the comments and the notifications
\* stay within the bounds
Request(sid, H(_, _), r) ==
    /\ NotifCount(H(Loaded(sid), UidUser(Load(file), sid, now)).db.notifs) <= MaxNotifs
    /\ H(Loaded(sid), UidUser(Load(file), sid, now)).db.cnt.c <= MaxComments
    /\ HandlerStep(sid, H, r)

CommentStep ==
    \E sid \in LiveSids, vid \in VideoIds :
        LET b == [ok |-> TRUE, video_id |-> vid, text |-> <<"h", "i", " ">>]
        IN  Request(sid, LAMBDA d, u : Pcm(d, u, b, now), [op |-> "comment", body |-> b])

ReplyStep ==
    \E sid \in LiveSids, vid \in VideoIds, p \in CommentIds :
        LET b == [ok |-> TRUE, video_id |-> vid, parent_id |-> p, text |-> <<"o", "k">>]
        IN  Request(sid, LAMBDA d, u : Pcreply(d, u, b, now), [op |-> "reply", body |-> b])

PinStep ==
    \E sid \in LiveSids, cid \in CommentIds :
        LET b == [ok |-> TRUE, comment_id |-> cid]
        IN  Request(sid, LAMBDA d, u : Ppincm(d, u, b), [op |-> "pin", body |-> b])

DeleteCommentStep ==
    \E sid \in LiveSids, cid \in CommentIds :
        LET b == [ok |-> TRUE, comment_id |-> cid]
        IN  Request(sid, LAMBDA d, u : Pdc(d, u, b), [op |-> "delete_comment", body |-> b])

AdminLikeStep ==
    \E sid \in UserSids, vid \in VideoIds, val \in {1} :
        LET b == [ok |-> TRUE, video_id |-> vid, value |-> val]
        IN  Request(sid, LAMBDA d, u : Plk(d, u, b), [op |-> "like", body |-> b])

AdminSubStep ==
    \E sid \in UserSids, ch \in UserIds :
        LET b == [ok |-> TRUE, channel_id |-> ch]
        IN  Request(sid, LAMBDA d, u : Psub(d, u, b, now), [op |-> "subscribe", body |-> b])

\* the media files of the videos that document d has and document e lacks
FilesGone(d, e) == {VidFile(v) : v \in DOMAIN d.videos \ DOMAIN e.videos}

\* POST /api/delete_video
DeleteVideoStep ==
    \E sid \in LiveSids, vid \in VideoIds :
        LET b  == [ok |-> TRUE, video_id |-> vid]
            d0 == Load(file)
            u  == UidUser(d0, sid, now)
            d1 == UidDoc(d0, sid, now)
            a  == Pdv(d1, u, b)
        IN  /\ file' = IF a.saved THEN W(a.db) ELSE Stored(d1)
            /\ vids' = vids \ FilesGone(d1, a.db)
            /\ resp' = [req |-> [op |-> "delete_video", body |-> b, u |-> u], out |-> a.resp]
            /\ UNCHANGED <<seen, now, drop, pc, db, req, issued, lk>>

\* a console entry that asks for an identifier and deletes
ConsoleDelete(a, r) ==
    /\ file' = IF a.saved THEN W(a.db) ELSE LoadFile(file)
    /\ vids' = vids \ FilesGone(Load(file), a.db)
    /\ resp' = [req |-> r, out |-> a.resp]
    /\ UNCHANGED <<seen, now, drop, pc, db, req, issued, lk>>

ConsoleDeleteUser ==
    \E uid \in UserIds :
        ConsoleDelete(UserMenuDelete(Load(file), uid), [op |-> "console_delete_user", uid |-> uid])

ConsoleDeleteVideo ==
    \E vid \in VideoIds :
        ConsoleDelete(VideoMenuDelete(Load(file), vid), [op |-> "console_delete_video", vid |-> vid])

\* a view request of a logged-in or anonymous client
AdminViewStep ==
    \E vid \in VideoIds, sid \in UserSids :
        LET b == [ok |-> TRUE, video_id |-> vid]
            a == Pvw(Load(file), "fp1", b, sid, now)
        IN  /\ file' = IF a.saved THEN W(a.db) ELSE LoadFile(file)
            /\ resp' = [req |-> [op |-> "view", fp |-> "fp1", body |-> b, sid |-> sid],
                        out |-> a.resp]
            /\ UNCHANGED <<seen, now, drop, pc, db, req, issued, lk, vids>>

NextAdmin ==
    \/ CommentStep
    \/ AdminLikeStep
    \/ AdminSubStep
    \/ AdminViewStep
    \/ DeleteVideoStep
    \/ ConsoleDeleteUser
    \/ ConsoleDeleteVideo

SpecAdmin == InitStored(VideoAt(Start), Start, {VidFile(1)}) /\ [][NextAdmin]_vars

NextPin ==
    \/ CommentStep
    \/ ReplyStep
    \/ PinStep
    \/ DeleteCommentStep
    \/ ConsoleDeleteVideo

SpecPin == InitStored(VideoAt(Start), Start, {VidFile(1)}) /\ [][NextPin]_vars

----------------------------------------------------------------------------
(* SpecFix: fix_all_issues beside subscribe requests, with the clock       *)
(* passing the retention periods and entries appearing in VIDS that no     *)
(* video refers to.  At the start the second user has subscribed to the    *)
(* first and has viewed the first user's video.                            *)

\* the cookie of user uid in document d
SidOf(d, uid) == CHOOSE k \in DOMAIN d.sess : d.sess[k].uid = uid

SubscribedAt(t) ==
    Psub(VideoAt(t), 2, [ok |-> TRUE, channel_id |-> 1], t).db

ViewedAt(t) ==
    Pvw(SubscribedAt(t), "fp1", [ok |-> TRUE, video_id |-> 1], SidOf(SubscribedAt(t), 2), t).db

\* just past the hour, the day, the 30 days and the 90 days
FixInstants == {VlogKept + 1, SessionKept + 1, NotifKept + 1, HistKept + 1}

\* a media file without a video, and a subdirectory
Strays == {[base |-> 9, ext |-> ".mp4"], [base |-> 9, ext |-> "/"]}

\* an entry appears in VIDS
StrayFile ==
    \E f \in Strays \ vids :
        /\ vids' = vids \cup {f}
        /\ resp' = [req |-> [op |-> "stray", f |-> f], out |-> [code |-> 0]]
        /\ UNCHANGED <<file, now, drop, pc, db, req, issued, lk, seen>>

NextFix ==
    \/ Tick(FixInstants)
    \/ FixStep
    \/ StrayFile
    \/ AdminSubStep

SpecFix == InitStored(ViewedAt(Start), Start, {VidFile(1)}) /\ [][NextFix]_vars

----------------------------------------------------------------------------
(* SpecSess: sessions.  Logins, logouts and like requests with a cookie,   *)
(* with the clock passing the time-to-live.                                *)

\* the time-to-live to the second, and just past it
SessInstants == {TTL, TTL + 1}

LoginBodies ==
    { [ok |-> TRUE, username |-> BOB, password |-> PwOk],
      [ok |-> TRUE, username |-> Sys, password |-> <<" ">> \o PwOk],
      [ok |-> TRUE, username |-> Sys, password |-> <<"n", "o", "p", "e">>] }

\* POST /api/login
LoginStep ==
    \E b \in LoginBodies :
        LET d0 == Load(file)
            a  == Plog(d0, b, now)
        IN  /\ Cardinality(DOMAIN a.db.sess) <= MaxSessions
            /\ Atomic(d0, a, [op |-> "login", body |-> b])

\* POST /api/logout
LogoutStep ==
    \E sid \in Sids :
        Atomic(Load(file), Plout(Load(file), sid), [op |-> "logout", sid |-> sid])

\* POST /api/like with a cookie; known: whether the document held a
\* session for the cookie when the request came
CookieStep ==
    \E sid \in Sids, vid \in VideoIds :
        LET b == [ok |-> TRUE, video_id |-> vid, value |-> 1]
        IN  HandlerStep(sid, LAMBDA d, u : Plk(d, u, b),
                [ op |-> "like", body |-> b, sid |-> sid,
                  known |-> sid \in DOMAIN Load(file).sess ])

NextSess ==
    \/ Tick(SessInstants)
    \/ LoginStep
    \/ LogoutStep
    \/ CookieStep

SpecSess == InitStored(VideoAt(Start), Start, {VidFile(1)}) /\ [][NextSess]_vars

----------------------------------------------------------------------------
(* SpecLoad: DB.load on whatever db.json holds.  The file is missing, does *)
(* not parse, or holds a JSON value that the operator or another program   *)
(* left there.                                                             *)

\* keys that a hand-written object may hold; "extra" is no key of DB._e()
EditedKeys == {"users", "sess", "settings", "cnt", "vlog", "extra"}

\* the value a hand-written object holds under key k
Edited(k) == <<"edited", k>>

Objects == { [kind |-> "object", val |-> [k \in K |-> Edited(k)]] : K \in SUBSET EditedKeys }

Arrays == { [kind |-> "array", items |-> I] : I \in {{}, {"users", "sess"}, DOMAIN E} }

Strings == { [kind |-> "string", has |-> I] : I \in {{}, {"users"}, DOMAIN E} }

Contents ==
    {Missing, Garbage, Stored(E), Stored(TwoUsers)}
        \cup {Json(v) : v \in Objects \cup Arrays \cup Strings \cup {[kind |-> "scalar"]}}

\* db = DB.load()
LoadStep ==
    /\ file' = DbLoad(file).file
    /\ resp' = [req |-> [op |-> "load", from |-> file], out |-> DbLoad(file).ret]
    /\ UNCHANGED <<now, drop, pc, db, req, issued, lk, vids, seen>>

\* db.json is replaced from outside the server
EditStep ==
    /\ \E f \in Contents : file' = f
    /\ resp' = [req |-> [op |-> "edit"], out |-> [code |-> 0]]
    /\ UNCHANGED <<now, drop, pc, db, req, issued, lk, vids, seen>>

InitLoad ==
    /\ file \in Contents
    /\ InitCommon

SpecLoad == InitLoad /\ [][LoadStep \/ EditStep]_vars

----------------------------------------------------------------------------
(* SpecShort: uploads and folder imports of videos of every kind of        *)
(* duration, by two registered users.                                      *)

\* durations in seconds, as the client's form or ffprobe gives them: a
\* negative one, 0 (also the value when none is known), and values around
\* the 60 seconds
Durations == {0 - 5, 0, 1, 30, 59, 60, 61, 90}

ShortUpload ==
    \E sid \in Sids, dur \in Durations :
        LET f == [video |-> TRUE, size_mb |-> 10, duration |-> dur, quality |-> "720p"]
        IN  /\ Pup(Loaded(sid), UidUser(Load(file), sid, now), f, now).db.cnt.v <= MaxVideos
            /\ HandlerStep(sid, LAMBDA d, u : Pup(d, u, f, now), [op |-> "upload", form |-> f])

ShortScan ==
    \E fs \in Listings(drop), dur \in [drop -> Durations] :
        LET d0 == Load(file)
            a  == ScanAutoVideos(d0, fs, dur)
        IN  /\ a.db.cnt.v <= MaxVideos
            /\ Atomic(d0, a, [op |-> "scan"])

NextShort == DropFile \/ ShortUpload \/ ShortScan

SpecShort == InitStored(TwoUsers, 0, {}) /\ [][NextShort]_vars

----------------------------------------------------------------------------
(* track_user_behavior() and get_recommendations()                         *)

\* track_user_behavior(uid, "video_watch", data) on document d: the tallies
\* of the user's profile, which is created when missing.  It loads and saves
\* the document itself; within H.pvw the handler's own save follows and
\* stores the handler's copy, which has no trace of it.
TrackUserBehavior(d, u, duration) ==
    LET p0 == IF u \in DOMAIN d.algorithm THEN d.algorithm[u] ELSE [short |-> 0, long |-> 0]
        p1 == IF duration < 60 THEN [p0 EXCEPT !.short = @ + 1]
                               ELSE [p0 EXCEPT !.long = @ + 1]
    IN  [d EXCEPT !.algorithm = Put(@, u, p1)]


\* twice the score get_recommendations gives video record v (the score is a
\* multiple of one half).  like_count is read from the stored record.
Score2(v, prefer_short) ==
    LET score == Get(v, "views", 0) + Get(v, "like_count", 0) * 2
    IN  IF prefer_short = v.is_short THEN 3 * score ELSE 2 * score

\* list.sort(key, reverse=True) of the keys ks by the score sc: the sort is
\* stable, and so is its reverse
RECURSIVE SortedDesc(_, _)
SortedDesc(ks, sc) ==
    IF ks = <<>> THEN <<>>
    ELSE LET i == CHOOSE i \in DOMAIN ks :
                      /\ \A j \in DOMAIN ks : sc[ks[j]] <= sc[ks[i]]
                      /\ \A j \in 1..(i - 1) : sc[ks[j]] < sc[ks[i]]
         IN  <<ks[i]>> \o SortedDesc(SubSeq(ks, 1, i - 1) \o SubSeq(ks, i + 1, Len(ks)), sc)

\* the keys of f in ascending order (the order of db["videos"], whose keys
\* are inserted as DB.nid issues them)
RECURSIVE Ascending(_)
Ascending(K) ==
    IF K = {} THEN <<>>
    ELSE LET k == CHOOSE k \in K : \A x \in K : k <= x
         IN  <<k>> \o Ascending(K \ {k})

\* a get_recommendations that counts the +1 likes of the document
GetRecommendationsCounted(d, u, limit) ==
    IF u \notin DOMAIN d.algorithm THEN <<>>
    ELSE
        LET prefs == d.algorithm[u]
            prefer_short == prefs.short > prefs.long
            shown == {v \in DOMAIN d.videos : ~d.videos[v].hidden}
            sc == [v \in shown |->
                     Score2(d.videos[v] @@ [like_count |-> LikeCount(d, v, 1)], prefer_short)]
        IN  Take(SortedDesc(Ascending(shown), sc), limit)

\* get_recommendations(uid, limit) on the document d it loads: the
\* identifiers of the videos returned, in order
GetRecommendations(d, u, limit) ==
    IF u \notin DOMAIN d.algorithm THEN <<>>
    ELSE
        LET prefs == d.algorithm[u]
            prefer_short == prefs.short > prefs.long
            shown == {v \in DOMAIN d.videos : ~d.videos[v].hidden}
            sc == [v \in shown |-> Score2(d.videos[v], prefer_short)]
        IN  Take(SortedDesc(Ascending(shown), sc), limit)

\* video_menu entry 3: the video is hidden, or shown again
VideoMenuHide(d, vid) ==
    IF vid \in DOMAIN d.videos
    THEN Answer(TRUE, [d EXCEPT !.videos[vid].hidden = ~@], [code |-> 0])
    ELSE Answer(FALSE, d, [code |-> 0])

----------------------------------------------------------------------------
(* SpecRec: recommendations over a store with a short and a long video,    *)
(* while the videos are viewed, liked and hidden.                          *)

\* a short video of user 1 and a long one of user 2
ShortAndLong ==
    LET f(dur) == [video |-> TRUE, size_mb |-> 10, duration |-> dur, quality |-> "720p"]
    IN  Pup(Pup(UsersAt(Start), 1, f(30), Start).db, 2, f(90), Start).db

\* the durations of the videos whose watching was tracked for user 1: none,
\* more short ones, more long ones, as many of each
Watched == {<<>>, <<30>>, <<90>>, <<30, 90>>}

RECURSIVE Tracked(_, _, _)
Tracked(d, u, durs) ==
    IF durs = <<>> THEN d
    ELSE Tracked(TrackUserBehavior(d, u, Head(durs)), u, Tail(durs))

Limits == {1, 20}

\* get_recommendations(uid, limit) is called
RecommendStep ==
    \E u \in UserIds, limit \in Limits :
        /\ file' = LoadFile(file)
        /\ resp' = [req |-> [op |-> "recommend", u |-> u, limit |-> limit],
                    out |-> [code |-> 200, videos |-> GetRecommendations(Load(file), u, limit)]]
        /\ UNCHANGED <<vids, seen, now, drop, pc, db, req, issued, lk>>

RecViewStep ==
    \E fp \in {"fp1"}, vid \in DOMAIN Load(file).videos :
        LET b == [ok |-> TRUE, video_id |-> vid]
            a == Pvw(Load(file), fp, b, NoSid, now)
        IN  /\ file' = IF a.saved THEN W(a.db) ELSE LoadFile(file)
            /\ resp' = [req |-> [op |-> "view", fp |-> fp, body |-> b, sid |-> NoSid],
                        out |-> a.resp]
            /\ UNCHANGED <<vids, seen, now, drop, pc, db, req, issued, lk>>

RecLikeStep ==
    \E sid \in DOMAIN Load(file).sess, vid \in DOMAIN Load(file).videos, val \in {1} :
        LET b == [ok |-> TRUE, video_id |-> vid, value |-> val]
        IN  HandlerStep(sid, LAMBDA d, u : Plk(d, u, b), [op |-> "like", body |-> b])

RecHideStep ==
    \E vid \in DOMAIN Load(file).videos :
        Atomic(Load(file), VideoMenuHide(Load(file), vid), [op |-> "hide", vid |-> vid])

InitRec == \E durs \in Watched : InitStored(Tracked(ShortAndLong, 1, durs), Start, {})

NextRec == RecommendStep \/ RecViewStep \/ RecLikeStep \/ RecHideStep

SpecRec == InitRec /\ [][NextRec]_vars

----------------------------------------------------------------------------
(* SpecHist: views of two videos of user 1 by both users and by anonymous  *)
(* clients, over ten minutes; user 2 has watched no video before, or as    *)
(* many as the history holds, or one less.                                 *)

TwoVideos == Pup(VideoAt(Start), 1, Form720, Start).db

\* the lengths of user 2's history at the start
HistLens == {0, HistCap - 1, HistCap}

\* user 2 has watched n further videos, one a second, the last one a second
\* before Start; the videos have been deleted since (H.pdv leaves the
\* history as it is)
Watching(n) ==
    [TwoVideos EXCEPT !.cnt.v = 2 + n,
                      !.hist = Put(@, 2, [i \in 1..n |-> [v |-> 2 + i, t |-> Start - i]])]

HistInstants == {ViewWindow \div 2, ViewWindow, ViewWindow + ViewWindow \div 2}

\* the place of video vid in the history h, 0 when it is not there
Place(h, vid) ==
    IF \E i \in DOMAIN h : h[i].v = vid
    THEN CHOOSE i \in DOMAIN h : h[i].v = vid /\ \A j \in 1..(i - 1) : h[j].v # vid
    ELSE 0

\* a view request of a logged-in or anonymous client; the request is kept
\* with the user uid() finds and the place of the video in that user's
\* history before the request
HistViewStep ==
    \E vid \in DOMAIN Load(file).videos, sid \in LiveSids :
        LET d == Load(file)
            b == [ok |-> TRUE, video_id |-> vid]
            a == Pvw(d, "fp1", b, sid, now)
            u == UidUser(d, sid, now)
        IN  /\ file' = IF a.saved THEN W(a.db) ELSE LoadFile(file)
            /\ resp' = [req |-> [ op |-> "view", fp |-> "fp1", body |-> b, sid |-> sid, u |-> u,
                                  place |-> IF u \in DOMAIN d.hist
                                            THEN Place(d.hist[u], vid) ELSE 0 ],
                        out |-> a.resp]
            /\ UNCHANGED <<seen, now, drop, pc, db, req, issued, lk, vids>>

InitHist == \E n \in HistLens : InitStored(Watching(n), Start, {VidFile(1), VidFile(2)})

NextHist == HistViewStep \/ Tick(HistInstants)

SpecHist == InitHist /\ [][NextHist]_vars

----------------------------------------------------------------------------
(* check_server_health()                                                   *)

SessionsHigh == 1000

\* what the checks of the machine can report: disk space, the size of
\* DBFILE, memory
MachineIssues == {"disk", "size", "memory"}

\* the entries of VIDS that no video of document d has as its file
Orphaned(d, files) == files \ {VidFile(v) : v \in DOMAIN d.videos}

\* a check that removes the orphaned files it counts
CheckServerHealthRemoving(f, files, env) ==
    LET d == Load(f)
    IN  [ issues |-> env \cup (IF Orphaned(d, files) # {} THEN {"orphaned"} ELSE {}),
          file   |-> LoadFile(f),
          files  |-> files \ Orphaned(d, files) ]

\* check_server_health() with DBFILE in state f and the entries files in
\* VIDS; env: the issues the checks of the machine find.  The answer holds
\* the issues, and DBFILE and VIDS after the call: the function writes
\* nothing itself, the DB.load() it calls writes as DB.load() does.
CheckServerHealth(f, files, env) ==
    LET d == Load(f)
    IN  [ issues |-> env
                       \cup (IF Orphaned(d, files) # {} THEN {"orphaned"} ELSE {})
                       \cup (IF Cardinality(DOMAIN d.sess) > SessionsHigh
                             THEN {"sessions"} ELSE {}),
          file   |-> LoadFile(f),
          files  |-> files ]

----------------------------------------------------------------------------
(* SpecHealth: check_server_health() called while DBFILE is there, missing *)
(* or unreadable, with comments and subscriptions written and stray files  *)
(* in VIDS.                                                                *)

\* check_server_health() is called; the request records the state DBFILE
\* was in
CheckStep ==
    \E env \in {{}, {"disk"}} :
        LET a == CheckServerHealth(file, vids, env)
        IN  /\ file' = a.file
            /\ vids' = a.files
            /\ resp' = [req |-> [op |-> "check", st |-> file.st],
                        out |-> [code |-> 0, issues |-> a.issues]]
            /\ UNCHANGED <<now, drop, pc, db, req, issued, lk, seen>>

\* DBFILE is removed, or damaged, by the operator or the machine
LoseFile ==
    \E f \in {Missing, Garbage} :
        /\ file.st = "ok"
        /\ file' = f
        /\ resp' = [req |-> [op |-> "lose", st |-> f.st], out |-> [code |-> 0]]
        /\ UNCHANGED <<now, drop, pc, db, req, issued, lk, vids, seen>>

NextHealth ==
    \/ CheckStep
    \/ LoseFile
    \/ StrayFile
    \/ CommentStep
    \/ AdminSubStep

SpecHealth == InitStored(VideoAt(Start), Start, {VidFile(1)}) /\ [][NextHealth]_vars

----------------------------------------------------------------------------
(* SpecOwn: comments written and deleted by an admin and by a user who is  *)
(* none, each of whom owns a video.                                        *)

NextOwn == CommentStep \/ DeleteCommentStep

SpecOwn == InitStored(ShortAndLong, Start, {}) /\ [][NextOwn]_vars

----------------------------------------------------------------------------
(* H.gnot: GET /api/notifications; H.gme: GET /api/me                      *)

\* a loop that marks the first notification only
MarkReadFirst(ns) == [i \in DOMAIN ns |-> IF i = 1 THEN [ns[i] EXCEPT !.read = TRUE] ELSE ns[i]]

\* the loop "for n in ns: n["read"] = True"
MarkRead(ns) == [i \in DOMAIN ns |-> [ns[i] EXCEPT !.read = TRUE]]

\* u: what uid() returned.  The list of the user is sorted in place, latest
\* first, every entry gets the time under "created" as well (and, likewise,
\* the sender's name and avatar, the message and the video under further
\* keys), is marked read, and the document is saved; shown: the entries
\* answered.
Gnot(d, u) ==
    IF u = NoUser THEN Err(d, 401)
    ELSE
        LET ns0 == IF u \in DOMAIN d.notifs THEN d.notifs[u] ELSE <<>>
            ns1 == [i \in DOMAIN ns0 |-> ns0[i] @@ [created |-> ns0[i].cr]]
            ord == SortedDesc([i \in DOMAIN ns1 |-> i], [i \in DOMAIN ns1 |-> ns1[i].cr])
            ns2 == MarkRead([i \in DOMAIN ord |-> ns1[ord[i]]])
            d1  == IF u \in DOMAIN d.notifs THEN [d EXCEPT !.notifs[u] = ns2] ELSE d
        IN  Answer(TRUE, d1, [code |-> 200, shown |-> Take(ns2, 50)])

\* u: what uid() returned; unread: the count of the user's notifications
\* that are not read
Gme(d, u) ==
    IF u = NoUser THEN Err(d, 401)
    ELSE IF u \notin DOMAIN d.users THEN Err(d, 404)
    ELSE
        LET ns == IF u \in DOMAIN d.notifs THEN d.notifs[u] ELSE <<>>
        IN  Answer(FALSE, d, [code |-> 200,
                              unread |-> Cardinality({i \in DOMAIN ns : ~ns[i].read})])

----------------------------------------------------------------------------
(* SpecNot: two users who subscribe to each other, list their              *)
(* notifications and ask for their own record, at two instants.            *)

NotifStep ==
    \E sid \in LiveSids :
        Request(sid, LAMBDA d, u : Gnot(d, u), [op |-> "notifications"])

MeStep ==
    \E sid \in LiveSids :
        Request(sid, LAMBDA d, u : Gme(d, u), [op |-> "me"])

NextNot ==
    \/ AdminSubStep
    \/ NotifStep
    \/ MeStep
    \/ Tick({ViewWindow})

SpecNot == InitStored(VideoAt(Start), Start, {VidFile(1)}) /\ [][NextNot]_vars

----------------------------------------------------------------------------
(* H.gsrch: GET /api/search                                                *)

SearchCap == 30

\* a score that counts the tags once, however many match
SearchScoreOnce(v, qs) ==
    (IF Contains(Lower(v.title), qs) THEN 10 ELSE 0)
    + (IF Contains(Lower(v.desc), qs) THEN 5 ELSE 0)
    + (IF \E i \in DOMAIN v.tags : Contains(Lower(v.tags[i]), qs) THEN 7 ELSE 0)

\* the score of video record v for the query qs
SearchScore(v, qs) ==
    (IF Contains(Lower(v.title), qs) THEN 10 ELSE 0)
    + (IF Contains(Lower(v.desc), qs) THEN 5 ELSE 0)
    + 7 * Cardinality({i \in DOMAIN v.tags : Contains(Lower(v.tags[i]), qs)})

\* q: the value of the parameter q.  The answer lists the videos with their
\* scores.
Gsrch(d, q) ==
    LET qs == Strip(Lower(q))
    IN  IF qs = <<>> THEN Answer(FALSE, d, [code |-> 200, videos |-> <<>>])
        ELSE
            LET sc  == [v \in DOMAIN d.videos |-> SearchScore(d.videos[v], qs)]
                res == {v \in DOMAIN d.videos : ~d.videos[v].hidden /\ sc[v] > 0}
                ord == Take(SortedDesc(Ascending(res), sc), SearchCap)
            IN  Answer(FALSE, d, [code |-> 200,
                                  videos |-> [i \in DOMAIN ord |-> [id |-> ord[i], score |-> sc[ord[i]]]]])

----------------------------------------------------------------------------
(* SpecSearch: searches over three videos, or over these and as many more  *)
(* as a search returns, while the console hides and shows the three.       *)

Boy == [ video |-> TRUE, size_mb |-> 10, duration |-> 90, quality |-> "720p",
         title |-> <<"B", "o", "y">>, description |-> <<"a", " ", "b", "o", "y">>,
         tags |-> << <<"b", "o", "y">>, <<" ", "b", "o", "b">>, <<" ">> >> ]

Sob == [ video |-> TRUE, size_mb |-> 10, duration |-> 90, quality |-> "720p",
         title |-> <<"S", "o", "b">>,
         tags |-> << <<"B", "O", "Y">>, <<"b", "o", "y", "s">> >> ]

Yo == [ video |-> TRUE, size_mb |-> 10, duration |-> 90, quality |-> "720p",
        title |-> <<"y", "o">>, description |-> <<"s", "o">> ]

ThreeVideos ==
    Pup(Pup(Pup(UsersAt(Start), 1, Boy, Start).db, 2, Sob, Start).db, 1, Yo, Start).db

\* the three videos and n further uploads of the second form by user 2
Library(n) ==
    LET next == Pup(ThreeVideos, 2, Sob, Start).db.videos[4]
    IN  [ThreeVideos EXCEPT
            !.cnt.v  = 3 + n,
            !.videos = [v \in 1..(3 + n) |-> IF v <= 3 THEN ThreeVideos.videos[v] ELSE next]]

Queries ==
    { <<>>, <<" ">>, <<"b", "o", "y">>, <<"B", "O", "Y">>, <<" ", "b", "o", "y">>,
      <<"b", "o">>, <<"o">>, <<"s", "s">> }

SearchStep ==
    \E q \in Queries :
        LET a == Gsrch(Load(file), q)
        IN  /\ file' = LoadFile(file)
            /\ resp' = [req |-> [op |-> "search", q |-> q], out |-> a.resp]
            /\ UNCHANGED <<vids, seen, now, drop, pc, db, req, issued, lk>>

SearchHideStep ==
    \E vid \in 1..3 :
        Atomic(Load(file), VideoMenuHide(Load(file), vid), [op |-> "hide", vid |-> vid])

InitSearch == \E n \in {0, SearchCap} : InitStored(Library(n), Start, {})

NextSearch == SearchStep \/ SearchHideStep

SpecSearch == InitSearch /\ [][NextSearch]_vars

----------------------------------------------------------------------------
(* H.gv1: GET /api/video/<id>; H.guvids: GET /api/user/<id>/videos         *)

\* cu: what uid() returned (it is asked for the viewer's like and
\* subscription only).  The answer names the video and the related ones:
\* the ten other shown videos with the most views.
Gv1(d, vid, cu) ==
    IF vid \notin DOMAIN d.videos THEN Err(d, 404)
    ELSE
        LET rel == {x \in DOMAIN d.videos : x # vid /\ ~d.videos[x].hidden}
            ord == SortedDesc(Ascending(rel), [x \in rel |-> d.videos[x].views])
        IN  Answer(FALSE, d, [code |-> 200, video |-> vid, related |-> Take(ord, 10)])

\* the videos of user uid as the viewer cu is shown them (the answer lists
\* them latest first; the order is left out)
Guvids(d, uid, cu) ==
    LET vs == {v \in DOMAIN d.videos : d.videos[v].uid = uid}
    IN  Answer(FALSE, d,
               [code |-> 200,
                videos |-> IF cu # uid THEN {v \in vs : ~d.videos[v].hidden} ELSE vs])

----------------------------------------------------------------------------
(* SpecHidden: the console hides and shows the videos of two users, who    *)
(* view and look videos up, list each other's videos and ask for           *)
(* recommendations.                                                        *)

LookupStep ==
    \E sid \in LiveSids, vid \in VideoIds :
        Request(sid, LAMBDA d, u : Gv1(d, vid, u), [op |-> "video", vid |-> vid])

UserVideosStep ==
    \E sid \in LiveSids, uid \in DOMAIN Load(file).users :
        Request(sid, LAMBDA d, u : Guvids(d, uid, u), [op |-> "user_videos", uid |-> uid])

NextHidden ==
    RecHideStep \/ RecViewStep \/ LookupStep \/ UserVideosStep \/ RecommendStep

SpecHidden == InitStored(Tracked(ShortAndLong, 2, <<30>>), Start, {}) /\ [][NextHidden]_vars

----------------------------------------------------------------------------
(* Playlists: H.pplc, H.ppla, H.pplr, H.gupls and H.gplaylist              *)

\* an exception leaves the handler: do_GET and do_POST catch none, and the
\* client gets no response
Raised(d) == Answer(FALSE, d, [code |-> 0, raised |-> TRUE])

\* u: what uid() returned; b: the body, [ok, name, public]
Pplc(d, u, b) ==
    IF u = NoUser THEN Err(d, 401)
    ELSE IF ~b.ok THEN Err(d, 400)
    ELSE IF Strip(b.name) = <<>> THEN Err(d, 400)
    ELSE
        LET plid == Uuid8(d.playlists)
            pl   == [uid |-> u, name |-> Strip(b.name), videos |-> <<>>, public |-> b.public]
        IN  Answer(TRUE, [d EXCEPT !.playlists = Put(@, plid, pl)],
                   [code |-> 200, playlist_id |-> plid])

\* u: what uid() returned; b: the body, [ok, playlist_id, video_id]
Ppla(d, u, b) ==
    IF u = NoUser THEN Err(d, 401)
    ELSE IF ~b.ok THEN Err(d, 400)
    ELSE IF b.playlist_id \notin DOMAIN d.playlists THEN Err(d, 403)
    ELSE IF d.playlists[b.playlist_id].uid # u THEN Err(d, 403)
    ELSE IF b.video_id \notin DOMAIN d.videos THEN Err(d, 404)
    ELSE IF b.video_id \in Range(d.playlists[b.playlist_id].videos)
    THEN Answer(FALSE, d, [code |-> 200])
    ELSE Answer(TRUE, [d EXCEPT !.playlists[b.playlist_id].videos = Append(@, b.video_id)],
                [code |-> 200])

\* u: what uid() returned; b: the body, [ok, playlist_id, video_id]
Pplr(d, u, b) ==
    IF u = NoUser THEN Err(d, 401)
    ELSE IF ~b.ok THEN Err(d, 400)
    ELSE IF b.playlist_id \notin DOMAIN d.playlists THEN Err(d, 403)
    ELSE IF d.playlists[b.playlist_id].uid # u THEN Err(d, 403)
    ELSE IF b.video_id \notin Range(d.playlists[b.playlist_id].videos)
    THEN Answer(FALSE, d, [code |-> 200])
    ELSE Answer(TRUE,
                [d EXCEPT !.playlists[b.playlist_id].videos =
                              SelectSeq(@, LAMBDA x : x # b.video_id)],
                [code |-> 200])

\* the playlists of user uid as the viewer cu is shown them.  The loop reads
\* pl["owner"] of every playlist, a key that H.pplc does not write.
Gupls(d, uid, cu) ==
    IF \E p \in DOMAIN d.playlists : "owner" \notin DOMAIN d.playlists[p]
    THEN Raised(d)
    ELSE Answer(FALSE, d,
                [code |-> 200, raised |-> FALSE,
                 playlists |-> {p \in DOMAIN d.playlists :
                                   /\ d.playlists[p].owner = uid
                                   /\ (d.playlists[p].public \/ cu = uid)}])

\* the playlist plid with its shown videos; uid() is not called
Gplaylist(d, plid) ==
    IF plid \notin DOMAIN d.playlists THEN Err(d, 404)
    ELSE Answer(FALSE, d,
                [code |-> 200,
                 videos |-> SelectSeq(d.playlists[plid].videos,
                                LAMBDA v : v \in DOMAIN d.videos /\ ~d.videos[v].hidden)])

----------------------------------------------------------------------------
(* SpecPl: two users, each with a video, who create playlists, add and     *)
(* remove videos, list each other's playlists and read them.               *)

PlaylistIds == 1..MaxPlaylists

CreatePlaylistStep ==
    \E sid \in LiveSids, public \in BOOLEAN :
        LET b == [ok |-> TRUE, name |-> <<"y", "o">>, public |-> public]
        IN  /\ Cardinality(DOMAIN Load(file).playlists) < MaxPlaylists
            /\ Request(sid, LAMBDA d, u : Pplc(d, u, b), [op |-> "create_playlist", body |-> b])

PlaylistAddStep ==
    \E sid \in LiveSids, plid \in PlaylistIds, vid \in VideoIds :
        LET b == [ok |-> TRUE, playlist_id |-> plid, video_id |-> vid]
        IN  Request(sid, LAMBDA d, u : Ppla(d, u, b), [op |-> "playlist_add", body |-> b])

PlaylistRemoveStep ==
    \E sid \in LiveSids, plid \in PlaylistIds, vid \in VideoIds :
        LET b == [ok |-> TRUE, playlist_id |-> plid, video_id |-> vid]
        IN  Request(sid, LAMBDA d, u : Pplr(d, u, b), [op |-> "playlist_remove", body |-> b])

UserPlaylistsStep ==
    \E sid \in LiveSids, uid \in DOMAIN Load(file).users :
        Request(sid, LAMBDA d, u : Gupls(d, uid, u), [op |-> "user_playlists", uid |-> uid])

PlaylistStep ==
    \E sid \in LiveSids, plid \in PlaylistIds :
        Request(sid, LAMBDA d, u : Gplaylist(d, plid), [op |-> "playlist", plid |-> plid])

NextPl ==
    \/ CreatePlaylistStep
    \/ PlaylistAddStep
    \/ PlaylistRemoveStep
    \/ UserPlaylistsStep
    \/ PlaylistStep

SpecPl == InitStored(ShortAndLong, Start, {}) /\ [][NextPl]_vars

----------------------------------------------------------------------------
(* H.pev: POST /api/edit_video                                             *)

\* a change that anyone who may edit can make
ByAnyone(admin, b, key, old) == IF key \in DOMAIN b THEN b[key] ELSE old

\* if key in b and usr.get("is_admin"): v[key] = b[key]
ByAdmin(admin, b, key, old) == IF key \in DOMAIN b /\ admin THEN b[key] ELSE old

\* u: what uid() returned; b: the body, ok and the keys the client sent
\* (tags: a list)
Pev(d, u, b) ==
    IF u = NoUser THEN Err(d, 401)
    ELSE IF ~b.ok THEN Err(d, 400)
    ELSE IF Get(b, "video_id", 0) \notin DOMAIN d.videos THEN Err(d, 404)
    ELSE
        LET vid   == b.video_id
            v     == d.videos[vid]
            admin == u \in DOMAIN d.users /\ d.users[u].is_admin
        IN  IF v.uid # u /\ ~admin THEN Err(d, 403)
            ELSE Answer(TRUE,
                     [d EXCEPT !.videos[vid] =
                        [v EXCEPT
                           !.title    = IF "title" \in DOMAIN b THEN Strip(b.title) ELSE @,
                           !.desc     = IF "description" \in DOMAIN b
                                        THEN Strip(b.description) ELSE @,
                           !.tags     = IF "tags" \in DOMAIN b THEN TagList(b.tags) ELSE @,
                           !.hidden   = ByAdmin(admin, b, "hidden", @),
                           !.is_short = ByAdmin(admin, b, "is_short", @)]],
                     [code |-> 200])

----------------------------------------------------------------------------
(* SpecEdit: an admin and a plain user, each with a video, edit the videos *)

\* what an edit request can name besides the video
Edits ==
    { [ok |-> TRUE],
      [ok |-> TRUE, title |-> <<"B", "o", "y", " ">>],
      [ok |-> TRUE, hidden |-> TRUE],
      [ok |-> TRUE, is_short |-> TRUE],
      [ok |-> TRUE, title |-> <<"S", "o", "b">>, hidden |-> TRUE, is_short |-> FALSE],
      [ok |-> TRUE, description |-> <<"s", "o">>, tags |-> << <<"y", "o">>, <<" ">> >>, hidden |-> FALSE] }

EditVideoStep ==
    \E sid \in LiveSids, vid \in 1..3, e \in Edits :
        LET b == e @@ [video_id |-> vid]
        IN  Request(sid, LAMBDA d, u : Pev(d, u, b), [op |-> "edit", body |-> b])

NextEdit == EditVideoStep

SpecEdit == InitStored(ShortAndLong, Start, {}) /\ [][NextEdit]_vars

----------------------------------------------------------------------------
(* H.gcm: GET /api/comments/<vid>                                          *)

\* the comments of video vid without a parent, and under each of them the
\* comments that name it as their parent, as pairs <<parent, reply>> (the
\* derived keys and the order of the answer are left out)
Gcm(d, vid) ==
    LET top == {c \in DOMAIN d.comments :
                   d.comments[c].vid = vid /\ d.comments[c].parent = NoComment}
    IN  Answer(FALSE, d,
               [code |-> 200, comments |-> top,
                replies |-> {<<c, r>> \in top \X DOMAIN d.comments : d.comments[r].parent = c}])

----------------------------------------------------------------------------
(* SpecCm: comments and replies written, deleted and listed.               *)

ListCommentsStep ==
    \E sid \in LiveSids, vid \in VideoIds :
        Request(sid, LAMBDA d, u : Gcm(d, vid), [op |-> "comments", vid |-> vid])

NextCm ==
    \/ CommentStep
    \/ ReplyStep
    \/ DeleteCommentStep
    \/ ListCommentsStep

SpecCm == InitStored(VideoAt(Start), Start, {VidFile(1)}) /\ [][NextCm]_vars

----------------------------------------------------------------------------
(* Claims about accounts (SpecReg)                                         *)

\* the stored document, as the next load would return it
Doc == Load(file)

\* two user names that are equal once letter case is ignored
SameIgnoringCase(a, b) ==
    /\ Len(a) = Len(b)
    /\ \A i \in 1..Len(a) : LowerCh(a[i]) = LowerCh(b[i])

\* the step just taken is a registration request with a JSON body whose
\* user name some stored user already bears, ignoring case
DupRegistration ==
    /\ resp'.req.op = "register"
    /\ resp'.req.body.ok
    /\ \E u \in DOMAIN Doc.users :
           SameIgnoringCase(Doc.users[u].username, resp'.req.body.username)

\* C5 as stated: a registration whose user name equals an existing one
\* ignoring case is answered 400, and the stored document (hence the users
\* and the sessions) is unchanged.
C5_Original ==
    [][DupRegistration => (resp'.out.code = 400 /\ file' = file)]_vars

\* C5 amended: such a registration is rejected and the stored document is
\* unchanged; the answer is 400 while registration is enabled and 403
\* while the console has disabled it.
C5_DupRejected ==
    [][DupRegistration =>
        /\ resp'.out.code = (IF Doc.settings.reg THEN 400 ELSE 403)
        /\ file' = file]_vars

\* a registration under a name that differs from a stored one only by case
\* and passes every other validation was just answered 400
C5_Witness ==
    /\ resp.req.op = "register"
    /\ resp.req.body.ok
    /\ Len(resp.req.body.password) >= 4
    /\ resp.out.code = 400
    /\ \E u \in DOMAIN Doc.users :
           /\ Doc.users[u].username # resp.req.body.username
           /\ SameIgnoringCase(Doc.users[u].username, resp.req.body.username)

\* C6: in every stored document no two users bear user names that are
\* equal ignoring case.
C6_UniqueNames ==
    \A u1, u2 \in DOMAIN Doc.users :
        u1 # u2 => ~SameIgnoringCase(Doc.users[u1].username, Doc.users[u2].username)

----------------------------------------------------------------------------
(* Claims about likes (SpecLike)                                           *)

\* the like records of user u on video vid in document d, and how many
Recs(d, u, vid) == {l \in DOMAIN d.likes : l.uid = u /\ l.vid = vid}

NRecs(d, u, vid) == BagCount(d.likes, Recs(d, u, vid))

NLikes(d) == BagCount(d.likes, DOMAIN d.likes)

\* the users whose like on video vid has value val in document d
Likers(d, vid, val) ==
    {l.uid : l \in {x \in DOMAIN d.likes : x.vid = vid /\ x.val = val}}

\* C7: a like request of user U on video V with value x in {+1, -1}
\* creates one record with value x when U has none on V; removes the
\* record and reports user_liked 0 when U's record has value x; changes
\* the record's value to x, adding no record, when it has value -x.
C7_LikeToggle ==
    [][(/\ resp'.req.op = "like"
        /\ resp'.out.code = 200
        /\ resp'.req.body.value \in {1, 0 - 1}) =>
          LET u      == resp'.req.u
              vid    == resp'.req.body.video_id
              x      == resp'.req.body.value
              before == Recs(Doc, u, vid)
              after  == Recs(Doc', u, vid)
          IN  /\ before = {} =>
                    /\ NRecs(Doc', u, vid) = 1
                    /\ \A l \in after : l.val = x
                    /\ NLikes(Doc') = NLikes(Doc) + 1
              /\ (before # {} /\ \A l \in before : l.val = x) =>
                    /\ after = {}
                    /\ resp'.out.user_liked = 0
              /\ (before # {} /\ \A l \in before : l.val = 0 - x) =>
                    /\ NRecs(Doc', u, vid) = 1
                    /\ \A l \in after : l.val = x
                    /\ NLikes(Doc') = NLikes(Doc)]_vars

\* a like request with value +1 has just removed the sender's +1 record
\* while another user's record on the same video stays
C7_Witness ==
    /\ resp.req.op = "like"
    /\ resp.out.code = 200
    /\ resp.req.body.value = 1
    /\ resp.out.user_liked = 0
    /\ Recs(Doc, resp.req.u, resp.req.body.video_id) = {}
    /\ \E l \in DOMAIN Doc.likes : l.vid = resp.req.body.video_id

\* C8: there is at most one like record per (user, video); the like_count
\* and dislike_count of the enriched video and of the like response equal
\* the number of distinct users whose like on the video is +1, resp. -1.
C8_LikeCounts ==
    /\ \A l \in DOMAIN Doc.likes : NRecs(Doc, l.uid, l.vid) = 1
    /\ \A vid \in DOMAIN Doc.videos :
           /\ Enrich(Doc, vid).like_count = Cardinality(Likers(Doc, vid, 1))
           /\ Enrich(Doc, vid).dislike_count = Cardinality(Likers(Doc, vid, 0 - 1))
    /\ (resp.req.op = "like" /\ resp.out.code = 200) =>
           /\ resp.out.like_count = Cardinality(Likers(Doc, resp.req.body.video_id, 1))
           /\ resp.out.dislike_count = Cardinality(Likers(Doc, resp.req.body.video_id, 0 - 1))

\* a like response reporting one like and one dislike, from two users
C8_Witness ==
    /\ resp.req.op = "like"
    /\ resp.out.code = 200
    /\ resp.out.like_count = 1
    /\ resp.out.dislike_count = 1
    /\ Cardinality({l.uid : l \in DOMAIN Doc.likes}) = 2

\* C9: every stored like record has value +1 or -1.
C9_LikeValues ==
    \A l \in DOMAIN Doc.likes : l.val \in {1, 0 - 1}

----------------------------------------------------------------------------
(* Claims about subscriptions (SpecSub)                                    *)

\* the subscription records of the pair (s, ch) in the bag subs
PairRecs(subs, s, ch) == {x \in DOMAIN subs : x.sub = s /\ x.ch = ch}

NPair(subs, s, ch) == BagCount(subs, PairRecs(subs, s, ch))

NChannel(subs, ch) == BagCount(subs, {x \in DOMAIN subs : x.ch = ch})

\* the last step was a subscribe request of S that added (S, C), and the
\* step now taken is a subscribe request of S for C again
SubscribedTwice ==
    /\ resp.req.op = "subscribe"
    /\ resp.out.code = 200
    /\ resp.out.subscribed
    /\ resp'.req.op = "subscribe"
    /\ resp'.out.code = 200
    /\ resp'.req.u = resp.req.u
    /\ resp'.req.body.channel_id = resp.req.body.channel_id

\* C10: for a subscriber S and a channel C # S, of two consecutive
\* subscribe requests the first adds the pair (subscribed true, count one
\* higher), the second removes it (subscribed false, count back) and
\* leaves the subscription collection as it was before the first; and
\* there is never more than one record for a pair.
C10_SubscribeTwice ==
    /\ [](\A x \in DOMAIN Doc.subs : NPair(Doc.subs, x.sub, x.ch) = 1)
    /\ [][SubscribedTwice =>
            LET s  == resp.req.u
                ch == resp.req.body.channel_id
                b0 == resp.req.before
            IN  /\ s # ch
                /\ PairRecs(b0, s, ch) = {}
                /\ NPair(Doc.subs, s, ch) = 1
                /\ resp.out.count = NChannel(b0, ch) + 1
                /\ ~resp'.out.subscribed
                /\ resp'.out.count = NChannel(b0, ch)
                /\ Doc'.subs = b0]_vars

\* a subscribe request has just removed the sender's subscription, and
\* the collection, which holds another subscription, is again what it was
\* before the sender subscribed
C10_Witness ==
    /\ resp.req.op = "subscribe"
    /\ resp.out.code = 200
    /\ ~resp.out.subscribed
    /\ PairRecs(Doc.subs, resp.req.u, resp.req.body.channel_id) = {}
    /\ PairRecs(resp.req.before, resp.req.u, resp.req.body.channel_id) # {}
    /\ Doc.subs # Empty

----------------------------------------------------------------------------
(* Claims about threads (SpecConc, SpecReq)                                *)

\* thread t ends with a DB.save in this step
Saves(t) ==
    /\ pc[t] = "loaded"
    /\ pc'[t] = "idle"
    /\ resp'.by = t
    /\ resp'.saved

\* the collections whose entries the requests of SpecConc create (the
\* background tasks change none of them), and those the background tasks
\* change (those requests change none of them)
RequestMade == {"comments", "likes", "sess", "notifs"}

TaskMade == {"users", "videos"}

\* C1: when a background task (folder scan, do_transcode, console) and a
\* request handler have each loaded the document before the other saves,
\* the later save overwrites the earlier one: what the earlier writer
\* stored after the later writer's load is absent from the document the
\* later writer stores.
C1_LostUpdate ==
    [][\A t \in Threads :
          Saves(t) =>
             \A e \in StoredSince(t) :
                 e[1] \in (IF t \in Background THEN RequestMade ELSE TaskMade)
                     => e \notin Entries(Doc')]_vars

\* a background task has just saved, and a comment that a handler had
\* stored after the task's load is gone
C1_Witness ==
    /\ resp.by \in Background
    /\ resp.saved
    /\ \E e \in resp.since : e[1] = "comments" /\ e[2] \notin DOMAIN Doc.comments

\* a like request with value +1 that created or turned the sender's record
LikeAdds(r) ==
    /\ r.by \in Handlers
    /\ r.req.op = "like"
    /\ r.out.code = 200
    /\ r.req.body.value = 1
    /\ r.out.user_liked = 1

\* C2: when two like requests with value +1 of two different users for the
\* same video are in flight together, both like records are in the stored
\* document once both are answered, and the video's like count is 2.
C2_ConcurrentLikes ==
    [][\A h \in Handlers :
          (/\ Saves(h)
           /\ resp'.over
           /\ LikeAdds(resp)
           /\ LikeAdds(resp')
           /\ resp.req.u # resp'.req.u
           /\ resp.req.body.video_id = resp'.req.body.video_id) =>
             LET vid == resp'.req.body.video_id
             IN  /\ \A u \in {resp.req.u, resp'.req.u} :
                        /\ NRecs(Doc', u, vid) = 1
                        /\ \A l \in Recs(Doc', u, vid) : l.val = 1
                 /\ resp'.out.like_count = 2
                 /\ Enrich(Doc', vid).like_count = 2]_vars

\* the second of two like requests that were in flight together has been
\* answered: two likes by two users
C2_Witness ==
    /\ LikeAdds(resp)
    /\ resp.over
    /\ resp.out.like_count = 2
    /\ Cardinality({l.uid : l \in DOMAIN Doc.likes}) = 2

\* C4: in each category the identifiers DB.nid hands out are strictly
\* increasing, so that no two entities of a category get the same one.
C4_UniqueIds ==
    \A k \in DOMAIN issued :
        \A i, j \in DOMAIN issued[k] : i < j => issued[k][i] < issued[k][j]

----------------------------------------------------------------------------
(* Claims about the lock (SpecLock)                                        *)

\* C3: every read and write of the file by DB.load and DB.save is done by
\* the thread that holds the lock (so no load reads a file whose write is
\* partway through and no two writes overlap); a file whose write is
\* partway through is being written by the holder of the lock; a thread
\* outside load and save does not hold the lock; and the lock, once
\* taken, is released, on the missing-file and parse-error paths too.
C3_LockDiscipline ==
    /\ [](\A t \in Threads : pc[t] \in Inside => lk = t)
    /\ [](file.st = "partial" =>
             \E t \in Threads : lk = t /\ pc[t] \in {"load_write", "save_write"})
    /\ [](\A t \in Threads : pc[t] \notin Inside => lk # t)
    /\ (lk # NoThread) ~> (lk = NoThread)

\* the server started without a document that parses: a load wrote the
\* default one and left the lock; now a save is partway through its
\* write, while another thread, which has loaded, has yet to save
C3_Witness ==
    /\ file.st = "partial"
    /\ \E t \in LockThreads :
           /\ lk = t
           /\ pc[t] = "save_write"
           /\ DOMAIN db[t].users = {}
           /\ \E o \in LockThreads \ {t} : pc[o] = "loaded"

----------------------------------------------------------------------------
(* More claims about subscriptions (SpecSub)                               *)

\* C11: a subscribe request whose channel is the sender is answered with
\* the error 400 and leaves the stored document as it was; and no stored
\* subscription has its subscriber as its channel.
C11_NoSelfSubscription ==
    /\ [](\A x \in DOMAIN Doc.subs : x.sub # x.ch)
    /\ [][(/\ resp'.req.op = "subscribe"
           /\ resp'.req.u # NoUser
           /\ resp'.req.body.channel_id = resp'.req.u) =>
              /\ resp'.out.code = 400
              /\ Doc' = Doc]_vars

\* a user who is subscribed to another channel has just been refused a
\* subscription to their own
C11_Witness ==
    /\ resp.req.op = "subscribe"
    /\ resp.req.u # NoUser
    /\ resp.req.body.channel_id = resp.req.u
    /\ resp.out.code = 400
    /\ \E x \in DOMAIN Doc.subs : x.sub = resp.req.u

----------------------------------------------------------------------------
(* Claims about views (SpecView)                                           *)

\* C12: a view request for a stored video is counted, and raises the
\* video's view counter by one, exactly when the same fingerprint has no
\* counted view of that video less than 300 seconds back; otherwise the
\* counter stays, and no other step changes it.
C12_ViewWindow ==
    [][IF resp'.req.op = "view" /\ resp'.req.body.video_id \in DOMAIN Doc.videos
       THEN LET vid   == resp'.req.body.video_id
                k     == <<resp'.req.fp, vid>>
                fresh == k \notin DOMAIN seen \/ now - seen[k] >= ViewWindow
            IN  /\ resp'.out.counted <=> fresh
                /\ Doc'.videos[vid].views =
                       Doc.videos[vid].views + (IF fresh THEN 1 ELSE 0)
       ELSE \A vid \in DOMAIN Doc.videos :
                /\ vid \in DOMAIN Doc'.videos
                /\ Doc'.videos[vid].views = Doc.videos[vid].views]_vars

\* 300 seconds after the start a view has just been counted and the video
\* has three views: one of the two fingerprints was counted at the start
\* and again now
C12_Witness ==
    /\ resp.req.op = "view"
    /\ resp.out.counted
    /\ now = Start + ViewWindow
    /\ Doc.videos[resp.req.body.video_id].views = 3

----------------------------------------------------------------------------
(* Claims about deletions (SpecAdmin)                                      *)

\* what document d holds of user U
HoldsOf(d, U) ==
    [ videos   |-> {k \in DOMAIN d.videos : d.videos[k].uid = U},
      comments |-> {k \in DOMAIN d.comments : d.comments[k].uid = U},
      likes    |-> {l \in DOMAIN d.likes : l.uid = U},
      subs     |-> {x \in DOMAIN d.subs : x.sub = U \/ x.ch = U},
      notifs   |-> DOMAIN d.notifs \cap {U},
      hist     |-> DOMAIN d.hist \cap {U},
      sess     |-> {k \in DOMAIN d.sess : d.sess[k].uid = U} ]

NothingHeld ==
    [ videos |-> {}, comments |-> {}, likes |-> {}, subs |-> {},
      notifs |-> {}, hist |-> {}, sess |-> {} ]

\* C13: when the operator deletes user U at the console (user_menu entry
\* 5), the stored document afterwards has no video owned by U, no comment
\* by U, no like by U, no subscription with U as subscriber or channel, no
\* notification list and no history list of U, and no session of U.
C13_UserDataGone ==
    [][ \A U \in UserIds :
          ( /\ resp'.req.op = "console_delete_user"
            /\ resp'.req.uid = U
            /\ U \in DOMAIN Load(file).users )
          => /\ U \notin DOMAIN Load(file').users
             /\ HoldsOf(Load(file'), U) = NothingHeld ]_vars

\* user 2 has been deleted after commenting on and subscribing to user 1:
\* the notifications of user 1 still tell
C13_Witness ==
    /\ resp.req.op = "console_delete_user"
    /\ resp.req.uid = 2
    /\ resp.out.code = 200
    /\ 1 \in DOMAIN Load(file).notifs
    /\ \E i, j \in DOMAIN Load(file).notifs[1] :
          /\ Load(file).notifs[1][i].type = "comment"
          /\ Load(file).notifs[1][i].from = 2
          /\ Load(file).notifs[1][j].type = "subscribe"
          /\ Load(file).notifs[1][j].from = 2

\* the comments and likes of document d that refer to video v
RefersTo(d, v) ==
    [ comments |-> {k \in DOMAIN d.comments : d.comments[k].vid = v},
      likes    |-> {l \in DOMAIN d.likes : l.vid = v} ]

\* C14: whenever a video is removed from the stored document, by
\* delete_video, by the console's video deletion or with its owner's
\* deletion, no comment and no like that refers to it remains.
C14_VideoCleanup ==
    [][ \A v \in DOMAIN Load(file).videos \ DOMAIN Load(file').videos :
          RefersTo(Load(file'), v) = [comments |-> {}, likes |-> {}] ]_vars

\* the same for the two operations that delete one video
C14_VideoDeletes ==
    [][ resp'.req.op \in {"delete_video", "console_delete_video"} =>
          \A v \in DOMAIN Load(file).videos \ DOMAIN Load(file').videos :
              RefersTo(Load(file'), v) = [comments |-> {}, likes |-> {}] ]_vars

----------------------------------------------------------------------------
(* Claims about references to users (SpecDel)                              *)

\* the users that the videos, comments, likes and subscriptions of
\* document d refer to
UsersReferred(d) ==
    {d.videos[k].uid : k \in DOMAIN d.videos} \cup
    {d.comments[k].uid : k \in DOMAIN d.comments} \cup
    {l.uid : l \in DOMAIN d.likes} \cup
    {x.sub : x \in DOMAIN d.subs} \cup
    {x.ch : x \in DOMAIN d.subs}

\* C15: in every stored document the owner of every video, the author of
\* every comment, the user of every like and both ends of every
\* subscription are existing users, also when the console deletes a user
\* between a handler's uid() and its DB.save.
C15_RefsExist == UsersReferred(Load(file)) \subseteq DOMAIN Load(file).users

----------------------------------------------------------------------------
(* Claims about pinned comments (SpecPin)                                  *)

\* the pinned comments of video vid in document d
Pinned(d, vid) == {k \in DOMAIN d.comments : d.comments[k].vid = vid /\ d.comments[k].pinned}

\* C16: every video has at most one pinned comment, and a pin request
\* that succeeds on comment c leaves c the only pinned comment of its
\* video.
C16_OnePinned ==
    /\ [](\A vid \in VideoIds : Cardinality(Pinned(Load(file), vid)) <= 1)
    /\ [][ (resp'.req.op = "pin" /\ resp'.out.code = 200) =>
             LET c == resp'.req.body.comment_id
             IN  Pinned(Load(file'), Load(file').comments[c].vid) = {c} ]_vars

\* a pin request has succeeded on a video that has two comments
C16_Witness ==
    /\ resp.req.op = "pin"
    /\ resp.out.code = 200
    /\ LET c == resp.req.body.comment_id
           d == Load(file)
       IN  /\ Cardinality({k \in DOMAIN d.comments : d.comments[k].vid = d.comments[c].vid}) = 2
           /\ Pinned(d, d.comments[c].vid) = {c}

----------------------------------------------------------------------------
(* Claims about fix_all_issues (SpecFix)                                   *)

\* the sessions, the view log, the notifications and the history of
\* document d
Cleaned(d) == [sess |-> d.sess, vlog |-> d.vlog, notifs |-> d.notifs, hist |-> d.hist]

\* C17: when fix_all_issues runs twice with nothing in between and no time
\* passing, the second run returns an empty list of fixes and leaves the
\* sessions, the view log, the notifications, the history and the entries
\* of VIDS as the first run left them.
C17_FixTwice ==
    [][ (resp.req.op = "fix" /\ resp'.req.op = "fix" /\ now' = now) =>
          /\ resp'.out.fixes = {}
          /\ Cleaned(Load(file')) = Cleaned(Load(file))
          /\ vids' = vids ]_vars

\* a second run that found nothing, directly after a run that made fixes,
\* with a subdirectory in VIDS that no run can remove
C17_Witness ==
    /\ resp.req.op = "fix"
    /\ resp.req.prior > 0
    /\ resp.out.fixes = {}
    /\ [base |-> 9, ext |-> "/"] \in vids
    /\ DOMAIN Load(file).sess = {}

\* what fix_all_issues at time t keeps of document d when view-log entries
\* count as old after logAge seconds: the entries that are not older than
\* their retention period
Retained(d, t, logAge) ==
    [ sess   |-> Keep(d.sess, {k \in DOMAIN d.sess : t - d.sess[k].cr <= SessionKept}),
      vlog   |-> Keep(d.vlog, {k \in DOMAIN d.vlog : t - d.vlog[k] <= logAge}),
      notifs |-> [k \in DOMAIN d.notifs |->
                     SelectSeq(d.notifs[k], LAMBDA n : t - n.cr <= NotifKept)],
      hist   |-> [k \in DOMAIN d.hist |->
                     SelectSeq(d.hist[k], LAMBDA h : t - h.t <= HistKept)] ]

\* C18 as stated: after fix_all_issues the stored document has no session
\* older than 24 hours, no view-log entry older than 1 hour, no
\* notification older than 30 days and no history entry older than 90
\* days, and every younger entry is kept.
C18_Original ==
    [][ resp'.req.op = "fix" =>
          Cleaned(Load(file')) = Retained(Load(file), now, VlogKept) ]_vars

\* C18, amended: the same with view-log entries older than 24 hours.
C18_Retention ==
    [][ resp'.req.op = "fix" =>
          Cleaned(Load(file')) = Retained(Load(file), now, VlogCleaned) ]_vars

\* a run just past the day: the sessions and the view-log entry are gone,
\* the notification and the history entry, which are younger than their
\* periods, are kept
C18_Witness ==
    /\ resp.req.op = "fix"
    /\ now = Start + SessionKept + 1
    /\ {<<"sessions", 2>>, <<"view logs", 1>>} \subseteq resp.out.fixes
    /\ 1 \in DOMAIN Load(file).notifs /\ Load(file).notifs[1] # <<>>
    /\ 2 \in DOMAIN Load(file).hist /\ Load(file).hist[2] # <<>>

----------------------------------------------------------------------------
(* Claims about sessions (SpecSess)                                        *)

\* C19: a request is authenticated as the user of its session token
\* exactly while the stored document holds a session for the token whose
\* age is at most 604800 seconds; for an older token uid() yields no user
\* and the session is gone from the stored document; a token the document
\* does not hold never authenticates.
C19_TokenLife ==
    [][ resp'.req.op = "like" =>
          LET sid  == resp'.req.sid
              sess == Load(file).sess
              u    == resp'.req.u
          IN  IF sid \notin DOMAIN sess THEN u = NoUser
              ELSE IF now - sess[sid].cr <= 604800
                   THEN u = sess[sid].uid /\ sid \in DOMAIN Load(file').sess
                   ELSE u = NoUser /\ sid \notin DOMAIN Load(file').sess ]_vars

\* a request with a token that was held and had expired: no user, and the
\* session is gone
C19_Witness ==
    /\ resp.req.op = "like"
    /\ resp.req.known
    /\ resp.req.u = NoUser
    /\ resp.out.code = 401
    /\ now = Start + TTL + 1
    /\ DOMAIN Load(file).sess # {}

----------------------------------------------------------------------------
(* Claims about bans (SpecBan)                                             *)

\* the sessions of document d whose user is banned
BannedSessions(d) ==
    {k \in DOMAIN d.sess : d.sess[k].uid \in DOMAIN d.users /\ d.users[d.sess[k].uid].is_banned}

\* the login handler h is about to finish met a banned user with the right
\* credentials in the document it loaded
BannedLogin(h) ==
    /\ pc[h] = "loaded"
    /\ req[h].op = "login"
    /\ LET ms == LoginMatches(db[h], Strip(req[h].body.username), Strip(req[h].body.password))
       IN  ms # <<>> /\ db[h].users[Head(ms)].is_banned

\* C20: no stored document holds a session of a user whose is_banned flag
\* is true, and a login with the right credentials by a banned user is
\* answered with 403 and creates no session.
C20_NoBannedSession ==
    /\ [](BannedSessions(Load(file)) = {})
    /\ [][ \A h \in Handlers :
             (BannedLogin(h) /\ pc'[h] = "idle") =>
                 /\ resp'.out.code = 403
                 /\ file' = file ]_vars

\* a banned user's login has been refused; the ban dropped the session
\* the user had, the other user's is still there
C20_Witness ==
    /\ resp.req.op = "login"
    /\ resp.out.code = 403
    /\ \E u \in DOMAIN Load(file).users :
          /\ Load(file).users[u].is_banned
          /\ \A k \in DOMAIN Load(file).sess : Load(file).sess[k].uid # u
          /\ \E k \in DOMAIN Load(file).sess : Load(file).sess[k].uid # u

----------------------------------------------------------------------------
(* Claims about logout (SpecOut)                                           *)

\* C21: after a logout with session token t has completed, t never
\* authenticates a later request, whatever handlers, console actions or
\* background tasks run in between.  Where no request logs in, a token
\* authenticates exactly while the stored document holds its session, and
\* a session leaves the document by logout only: a session that has left
\* never comes back.
C21_LoggedOutStays ==
    [][ \A t \in ClientSids :
          t \notin DOMAIN Load(file).sess => t \notin DOMAIN Load(file').sess ]_vars

----------------------------------------------------------------------------
(* Claims about DB.load (SpecLoad)                                         *)

\* the answer of DB.load is an object that holds every key of DB._e()
Complete(ret) == ret.kind = "object" /\ DOMAIN E \subseteq DOMAIN ret.val

\* C22: DB.load always returns a document that has every default
\* top-level key.  Without a file it returns the default document and
\* writes it; from a file that parses it returns what the file holds with
\* the missing keys filled and the present keys as loaded; a file that does
\* not parse is overwritten by the default document, which is returned.
C22_LoadTotal ==
    [][ resp'.req.op = "load" =>
          /\ Complete(resp'.out)
          /\ file.st \in {"missing", "garbage", "partial"} =>
                 resp'.out.val = E /\ file' = Stored(E)
          /\ (file.st = "json" /\ file.val.kind = "object") =>
                 \A k \in DOMAIN resp'.out.val :
                     resp'.out.val[k] = IF k \in DOMAIN file.val.val
                                        THEN file.val.val[k] ELSE E[k] ]_vars

\* C22 for the files that hold a JSON object or no JSON at all
C22_ObjectsAndGarbage ==
    [][ (resp'.req.op = "load" /\ (file.st = "json" => file.val.kind = "object")) =>
          /\ Complete(resp'.out)
          /\ file.st \in {"missing", "garbage", "partial"} =>
                 resp'.out.val = E /\ file' = Stored(E)
          /\ file.st = "json" =>
                 \A k \in DOMAIN resp'.out.val :
                     resp'.out.val[k] = IF k \in DOMAIN file.val.val
                                        THEN file.val.val[k] ELSE E[k] ]_vars

----------------------------------------------------------------------------
(* Claims about short videos (SpecShort)                                   *)

----------------------------------------------------------------------------
(* Claims about the folder import (SpecScan)                               *)

\* the videos of document d imported from file f
ImportedFrom(d, f) == {v \in DOMAIN d.videos : d.videos[v].auto_source = f}

\* every file of the folder with a video extension has a video in d
AllImported(d) == \A f \in drop : f.ext \in VideoExts => ImportedFrom(d, f) # {}

\* thread t ends a scan in this step
ScanEnds(t) == pc[t] = "loaded" /\ req[t].op = "scan" /\ pc'[t] = "idle"

\* C24: in every stored document no two videos have the same auto_source,
\* however the periodic scan, the scans on demand and the request handlers
\* interleave; and a scan that finds every recognised file referenced by a
\* video of the document it loaded adds nothing and does not write the
\* document.
C24_OnePerFile ==
    /\ [](\A f \in Files : Cardinality(ImportedFrom(Load(file), f)) <= 1)
    /\ [][ \A t \in Threads :
             (ScanEnds(t) /\ AllImported(db[t])) =>
                 /\ resp'.out.code \in {200, 403}
                 /\ resp'.out.code = 200 => resp'.out.added = 0
                 /\ ~resp'.saved
                 /\ file' = file ]_vars

\* a scan has ended with nothing added after two video identifiers were
\* issued, and the stored document holds one video, imported from the file
C24_Witness ==
    /\ resp.req.op = "scan"
    /\ resp.out.code = 200
    /\ resp.out.added = 0
    /\ Len(issued["v"]) = 2
    /\ Cardinality(DOMAIN Load(file).videos) = 1
    /\ Cardinality(ImportedFrom(Load(file), F1)) = 1

----------------------------------------------------------------------------
(* Claims about transcoding (SpecConc)                                     *)

\* the qualities of video vid in document d, none when it has no such video
QualitiesOf(d, vid) ==
    IF vid \in DOMAIN d.videos THEN Range(d.videos[vid].qualities) ELSE {}

\* do_transcode ends in this step and stores a document in which the video
\* has the quality, which it had not in the document loaded
QualityAdded ==
    /\ pc["tc"] = "loaded"
    /\ pc'["tc"] = "idle"
    /\ resp'.saved
    /\ req["tc"].quality \in QualitiesOf(Load(file'), req["tc"].vid)
    /\ req["tc"].quality \notin QualitiesOf(db["tc"], req["tc"].vid)

\* C25: a transcode request that starts the transcoder answers 200; a
\* quality is added to a video's list only by a do_transcode whose ffmpeg
\* exited with status 0 (not after a timeout or a failure) and whose video
\* is in the document it loaded; and no stored list of qualities holds a
\* quality twice.
C25_TranscodeOutcome ==
    /\ [](resp.req.op = "transcode" /\ resp.out.started => resp.out.code = 200)
    /\ [](\A v \in DOMAIN Load(file).videos :
            LET q == Load(file).videos[v].qualities
            IN  \A i, j \in DOMAIN q : q[i] = q[j] => i = j)
    /\ [][ QualityAdded =>
             /\ req["tc"].end = "exit0"
             /\ req["tc"].vid \in DOMAIN db["tc"].videos ]_vars

----------------------------------------------------------------------------
(* Claims about recommendations (SpecRec)                                  *)

\* twice the score as stated: views plus two for every +1 like, times 1.5
\* when the short flag of the video is the user's preference
StatedScore2(d, v, u) ==
    LET score == d.videos[v].views + 2 * LikeCount(d, v, 1)
        prefer_short == d.algorithm[u].short > d.algorithm[u].long
    IN  IF prefer_short = d.videos[v].is_short THEN 3 * score ELSE 2 * score

\* the list vs holds the n best of the shown videos of d by the stated
\* score, best first
TopByStatedScore(d, u, vs, n) ==
    LET shown == {v \in DOMAIN d.videos : ~d.videos[v].hidden}
    IN  /\ Range(vs) \subseteq shown
        /\ Len(vs) = IF Cardinality(shown) < n THEN Cardinality(shown) ELSE n
        /\ \A i, j \in DOMAIN vs : i < j =>
               vs[i] # vs[j] /\ StatedScore2(d, vs[i], u) >= StatedScore2(d, vs[j], u)
        /\ \A v \in shown \ Range(vs) : \A i \in DOMAIN vs :
               StatedScore2(d, vs[i], u) >= StatedScore2(d, v, u)

\* C26: get_recommendations returns nothing for a user without a profile,
\* and otherwise the top N shown videos by the score views + 2 x (+1 likes),
\* times 1.5 when the short flag matches the user's preference, best first.
C26_Ranking ==
    resp.req.op = "recommend" =>
        IF resp.req.u \in DOMAIN Doc.algorithm
        THEN TopByStatedScore(Doc, resp.req.u, resp.out.videos, resp.req.limit)
        ELSE resp.out.videos = <<>>

----------------------------------------------------------------------------
(* Claims about replies (SpecPin)                                          *)

\* comment c of document d is there and has no parent
TopLevel(d, c) == c \in DOMAIN d.comments /\ d.comments[c].parent = NoComment

\* C27: in every stored document the parent of a comment that has one is an
\* existing comment without a parent; and a reply request that names
\* another parent stores nothing.
C27_OneLevel ==
    /\ [](\A c \in DOMAIN Doc.comments :
            Doc.comments[c].parent # NoComment => TopLevel(Doc, Doc.comments[c].parent))
    /\ [][ (resp'.req.op = "reply" /\ ~TopLevel(Doc, resp'.req.body.parent_id))
              => Doc' = Doc ]_vars

----------------------------------------------------------------------------
(* Claims about the watch history (SpecHist)                               *)

\* the step is a view request of a logged-in user for a video of someone
\* else that the user's history holds
ViewedAgain ==
    /\ resp'.req.op = "view"
    /\ resp'.req.u # NoUser
    /\ VideoOwner(Doc, resp'.req.body.video_id) # resp'.req.u
    /\ resp'.req.place > 0

\* the user's history after the step is the entry of the video with the
\* time of the request, followed by the other entries as they were
MovedToFront ==
    LET u   == resp'.req.u
        vid == resp'.req.body.video_id
    IN  Doc'.hist[u] = <<[v |-> vid, t |-> now]>> \o
                           SelectSeq(Doc.hist[u], LAMBDA x : x.v # vid)

\* C28 as stated: whenever a logged-in user views a video of someone else
\* that is in their history, the entry moves to the front with the new time.
C28_Original == [][ViewedAgain => MovedToFront]_vars

\* C28: when a logged-in user views a video of someone else that is in their
\* history, and the view is counted (the last counted view of the video by
\* the same fingerprint is at least 300 seconds back), the entry moves to
\* the front of the history with the new timestamp; a view that is not
\* counted leaves the history as it is.
C28_MovedToFront ==
    [][ViewedAgain => IF resp'.out.counted THEN MovedToFront
                                           ELSE Doc'.hist = Doc.hist]_vars

\* user 2 has viewed a video again that stood behind another one in the
\* history, the view was counted, and the video is first now
C28_Witness ==
    /\ resp.req.op = "view"
    /\ resp.req.u = 2
    /\ resp.req.place > 1
    /\ resp.out.counted
    /\ Doc.hist[2][1] = [v |-> resp.req.body.video_id, t |-> now]
    /\ Doc.hist[2][2].t > Start

----------------------------------------------------------------------------
(* Claims about the health check (SpecHealth)                              *)

\* C30 as stated: in every state of the store a call of check_server_health
\* leaves DBFILE and the media files as they are.
C30_Original ==
    [][resp'.req.op = "check" => (file' = file /\ vids' = vids)]_vars

\* C30: a call of check_server_health changes no media file and leaves the
\* document that DB.load returns as it is; it leaves DBFILE as it is when
\* DBFILE holds a document, and when DBFILE is missing or unreadable the
\* DB.load it calls writes the default document.
C30_OnlyReads ==
    [][ resp'.req.op = "check" =>
          /\ vids' = vids
          /\ Load(file') = Load(file)
          /\ file' = IF file.st = "ok" THEN file ELSE Stored(E) ]_vars

\* the check has run on an unreadable DBFILE with an orphaned file in VIDS,
\* which it reported and left in place
C30_Witness ==
    /\ resp.req.op = "check"
    /\ resp.req.st = "garbage"
    /\ "orphaned" \in resp.out.issues
    /\ Strays \cap vids # {}
    /\ file = Stored(E)

----------------------------------------------------------------------------
(* Claims about deleting comments (SpecOwn)                                *)

\* the step is a delete-comment request of a logged-in user
DeleteAsked == resp'.req.op = "delete_comment" /\ resp'.req.u # NoUser

\* C31: a delete-comment request of a logged-in user removes the comment,
\* and nothing else, when the user is the comment's author, the owner of its
\* video or an admin; from any other user it is answered 403, for an unknown
\* comment 404, and the stored document stays as it is.
C31_DeleteComment ==
    [][ DeleteAsked =>
          LET cid == resp'.req.body.comment_id
              u   == resp'.req.u
          IN  IF cid \notin DOMAIN Doc.comments
              THEN resp'.out.code = 404 /\ Doc' = Doc
              ELSE IF \/ Doc.comments[cid].uid = u
                      \/ VideoOwner(Doc, Doc.comments[cid].vid) = u
                      \/ Doc.users[u].is_admin
                   THEN /\ resp'.out.code = 200
                        /\ Doc' = [Doc EXCEPT !.comments = Del(@, {cid})]
                   ELSE resp'.out.code = 403 /\ Doc' = Doc ]_vars

\* user 2, who is no admin and does not own the video, has asked to delete
\* a comment of user 1 and got 403; the comment is there
C31_Witness ==
    /\ resp.req.op = "delete_comment"
    /\ resp.req.u = 2
    /\ resp.out.code = 403
    /\ resp.req.body.comment_id \in DOMAIN Doc.comments
    /\ Doc.comments[resp.req.body.comment_id].uid = 1

----------------------------------------------------------------------------
(* Claims about notifications (SpecNot)                                    *)

\* the notifications of user u in document d
NotifsOf(d, u) == IF u \in DOMAIN d.notifs THEN d.notifs[u] ELSE <<>>

\* C32: when a logged-in user has listed their notifications, every stored
\* notification of that user is read and the notifications of every other
\* user are as before; the unread count of GET /api/me is the number of the
\* user's stored notifications that are not read, hence 0 when the request
\* follows the listing of the same user.
C32_ListingReads ==
    /\ [][ (resp'.req.op = "notifications" /\ resp'.req.u # NoUser) =>
             /\ \A i \in DOMAIN NotifsOf(Doc', resp'.req.u) :
                    NotifsOf(Doc', resp'.req.u)[i].read
             /\ Len(NotifsOf(Doc', resp'.req.u)) = Len(NotifsOf(Doc, resp'.req.u))
             /\ \A o \in (DOMAIN Doc.notifs \cup DOMAIN Doc'.notifs) \ {resp'.req.u} :
                    NotifsOf(Doc', o) = NotifsOf(Doc, o) ]_vars
    /\ [][ (resp'.req.op = "me" /\ resp'.out.code = 200) =>
             /\ resp'.out.unread =
                    Cardinality({i \in DOMAIN NotifsOf(Doc, resp'.req.u) :
                                    ~NotifsOf(Doc, resp'.req.u)[i].read})
             /\ (resp.req.op = "notifications" /\ resp.req.u = resp'.req.u)
                    => resp'.out.unread = 0 ]_vars

\* user 1 has listed their notifications, which are read now, while user 2
\* has one that is not
C32_Witness ==
    /\ resp.req.op = "notifications"
    /\ resp.req.u = 1
    /\ Len(NotifsOf(Doc, 1)) >= 1
    /\ \A i \in DOMAIN NotifsOf(Doc, 1) : NotifsOf(Doc, 1)[i].read
    /\ \E i \in DOMAIN NotifsOf(Doc, 2) : ~NotifsOf(Doc, 2)[i].read

----------------------------------------------------------------------------
(* Claims about search (SpecSearch)                                        *)

\* the answer lists, best first, the shown videos of the stored document
\* that have a positive score for the query qs, each with that score, or
\* the first 30 of them
SearchAnswers(qs) ==
    LET res   == resp.out.videos
        in(t) == IF Contains(Lower(t), qs) THEN 1 ELSE 0
        sc(v) == 10 * in(Doc.videos[v].title) + 5 * in(Doc.videos[v].desc)
                 + 7 * Cardinality({i \in DOMAIN Doc.videos[v].tags :
                                       in(Doc.videos[v].tags[i]) = 1})
        match == {v \in DOMAIN Doc.videos : ~Doc.videos[v].hidden /\ sc(v) > 0}
    IN  /\ {res[i].id : i \in DOMAIN res} \subseteq match
        /\ Len(res) = IF Cardinality(match) < SearchCap THEN Cardinality(match) ELSE SearchCap
        /\ \A i \in DOMAIN res : res[i].score = sc(res[i].id)
        /\ \A i, j \in DOMAIN res : i < j => res[i].id # res[j].id /\ res[i].score >= res[j].score
        /\ \A v \in match \ {res[i].id : i \in DOMAIN res} :
               \A i \in DOMAIN res : res[i].score >= sc(v)

\* C33 as stated: the match is on the lower-cased query, and the empty
\* query returns nothing.
C33_Original ==
    resp.req.op = "search" =>
        IF resp.req.q = <<>> THEN resp.out.videos = <<>>
        ELSE SearchAnswers(Lower(resp.req.q))

\* C33: search matches the query lower-cased and stripped of the blanks
\* around it, without regard to case, against title (10), description (5)
\* and every tag (7 each); it returns the shown videos with a positive
\* score, best first, cut to 30, and nothing for a query that is empty or
\* blank.
C33_Search ==
    resp.req.op = "search" =>
        IF Strip(resp.req.q) = <<>> THEN resp.out.videos = <<>>
        ELSE SearchAnswers(Strip(Lower(resp.req.q)))

\* a search for "boy" among more matching videos than a search returns:
\* the video with title, description and a tag matching leads with 22, the
\* answer holds 30 videos
C33_Witness ==
    /\ resp.req.op = "search"
    /\ resp.req.q = <<"b", "o", "y">>
    /\ Len(resp.out.videos) = SearchCap
    /\ resp.out.videos[1] = [id |-> 1, score |-> 22]
    /\ resp.out.videos[2].score = 14

----------------------------------------------------------------------------
(* Claims about the algorithm profile (SpecHist)                           *)

\* the short and long tallies of user u in document d, 0 without a profile
Tallies(d, u) ==
    IF u \in DOMAIN d.algorithm THEN d.algorithm[u].short + d.algorithm[u].long ELSE 0

\* C34: after a counted view by a logged-in user of a video of someone
\* else, the user's stored profile has one watch more in its short or long
\* tally than before the request.
C34_WatchTracked ==
    [][ ( /\ resp'.req.op = "view"
          /\ resp'.out.counted
          /\ resp'.req.u # NoUser
          /\ VideoOwner(Doc, resp'.req.body.video_id) # resp'.req.u )
        => Tallies(Doc', resp'.req.u) = Tallies(Doc, resp'.req.u) + 1 ]_vars

----------------------------------------------------------------------------
(* Claims about hidden videos (SpecHidden)                                 *)

\* the videos the last answer has shown, and to whom
Shown ==
    CASE resp.req.op = "video" /\ resp.out.code = 200
             -> {resp.out.video} \cup Range(resp.out.related)
      [] resp.req.op = "user_videos" -> resp.out.videos
      [] resp.req.op = "recommend"   -> Range(resp.out.videos)
      [] OTHER -> {}

\* C35: no answer of a read endpoint shows a hidden video to a viewer who
\* is not its owner.
C35_HiddenUnseen ==
    \A v \in Shown : Doc.videos[v].hidden => Doc.videos[v].uid = resp.req.u

----------------------------------------------------------------------------
(* Claims about playlists (SpecPl)                                         *)

\* C36: the read of a user's playlists is answered, with exactly the
\* playlists of that user that are public, and the private ones as well
\* when the viewer is that user.
C36_UserPlaylists ==
    resp.req.op = "user_playlists" =>
        /\ resp.out.code = 200
        /\ ~resp.out.raised
        /\ resp.out.playlists =
               {p \in DOMAIN Doc.playlists :
                   /\ Doc.playlists[p].uid = resp.req.uid
                   /\ (Doc.playlists[p].public \/ resp.req.u = resp.req.uid)}

\* C37: the videos of a playlist that is not public are answered to its
\* owner only; a request that adds a video to a playlist or removes one
\* changes the playlist only when it comes from the owner; and no playlist
\* lists a video twice.
C37_PlaylistOwner ==
    /\ []( (resp.req.op = "playlist" /\ resp.out.code = 200
                /\ ~Doc.playlists[resp.req.plid].public)
             => resp.req.u = Doc.playlists[resp.req.plid].uid )
    /\ [][ \A p \in DOMAIN Doc.playlists :
             (resp'.req.op \in {"playlist_add", "playlist_remove"}
                 /\ Doc'.playlists[p].videos # Doc.playlists[p].videos)
               => resp'.req.u = Doc.playlists[p].uid ]_vars
    /\ [](\A p \in DOMAIN Doc.playlists :
            \A i, j \in DOMAIN Doc.playlists[p].videos :
                Doc.playlists[p].videos[i] = Doc.playlists[p].videos[j] => i = j)

----------------------------------------------------------------------------
(* Claims about editing videos (SpecEdit)                                  *)

\* the key of the request body that names field k of a video
BodyKey(k) == IF k = "desc" THEN "description" ELSE k

\* C38: an edit request of a logged-in user for a stored video is answered
\* 403 and stores nothing unless the user owns the video or is an admin;
\* otherwise it changes that video only, hidden and is_short only when the
\* user is an admin, and no field that the request does not name.
C38_EditVideo ==
    [][ ( /\ resp'.req.op = "edit"
          /\ resp'.req.u # NoUser
          /\ resp'.req.body.video_id \in DOMAIN Doc.videos )
        => LET u     == resp'.req.u
               b     == resp'.req.body
               v     == Doc.videos[b.video_id]
               w     == Doc'.videos[b.video_id]
               admin == Doc.users[u].is_admin
           IN  IF v.uid # u /\ ~admin
               THEN resp'.out.code = 403 /\ Doc' = Doc
               ELSE /\ resp'.out.code = 200
                    /\ Doc' = [Doc EXCEPT !.videos[b.video_id] = w]
                    /\ (w.hidden # v.hidden \/ w.is_short # v.is_short) => admin
                    /\ \A k \in DOMAIN v : BodyKey(k) \notin DOMAIN b => w[k] = v[k] ]_vars

\* user 2, who is no admin, has edited their own video with a title and a
\* hidden flag: the title is stored, the video is not hidden
C38_Witness ==
    /\ resp.req.op = "edit"
    /\ resp.req.u = 2
    /\ resp.out.code = 200
    /\ resp.req.body.video_id = 2
    /\ "hidden" \in DOMAIN resp.req.body /\ resp.req.body.hidden
    /\ Doc.videos[2].title = <<"S", "o", "b">>
    /\ ~Doc.videos[2].hidden

----------------------------------------------------------------------------
(* Claims about comment counts (SpecCm)                                    *)

\* C39: the comment_count of a video is the number of comments its comment
\* listing returns, top-level comments and replies together.
C39_CommentCount ==
    (resp.req.op = "comments" /\ resp.req.vid \in DOMAIN Doc.videos) =>
        Enrich(Doc, resp.req.vid).comment_count =
            Cardinality(resp.out.comments) + Cardinality(resp.out.replies)

----------------------------------------------------------------------------
(* Claims about the first account (SpecReg)                                *)

Registered == resp'.req.op = "register" /\ resp'.out.code = 200

\* the registration added the user named in the answer and one session of
\* that user, and changed no other user or session
OneUserOneSession ==
    LET d0  == Load(file)
        d1  == Load(file')
        uid == resp'.out.user_id
        sid == resp'.out.sid
    IN  /\ uid \notin DOMAIN d0.users
        /\ DOMAIN d1.users = DOMAIN d0.users \cup {uid}
        /\ \A x \in DOMAIN d0.users : d1.users[x] = d0.users[x]
        /\ sid \notin DOMAIN d0.sess
        /\ DOMAIN d1.sess = DOMAIN d0.sess \cup {sid}
        /\ \A x \in DOMAIN d0.sess : d1.sess[x] = d0.sess[x]
        /\ d1.sess[sid].uid = uid

\* C40: a registered user is admin exactly when no user was stored at the
\* time of the registration; it is never banned or verified, and one session
\* of that user is created with it.
C40_FirstAdmin ==
    [][Registered =>
          /\ OneUserOneSession
          /\ Load(file').users[resp'.out.user_id].is_admin = (DOMAIN Load(file).users = {})
          /\ ~Load(file').users[resp'.out.user_id].is_banned
          /\ ~Load(file').users[resp'.out.user_id].is_verified]_vars

\* a registration has just added a second account, which is not an admin,
\* next to the first one
C40_Witness ==
    /\ resp.req.op = "register"
    /\ resp.out.code = 200
    /\ Cardinality(DOMAIN Doc.users) = 2
    /\ ~Doc.users[resp.out.user_id].is_admin
    /\ \E x \in DOMAIN Doc.users : x # resp.out.user_id /\ Doc.users[x].is_admin

====
